---- MODULE Spec2Model ----
(***************************************************************************)
(* MongoFrames: the structured-projection and dereferencing engine of      *)
(* mongoframes/frames.py (Frame.one / Frame.many, _flatten_projection,     *)
(* _dereference, _apply_sub_frames, SubFrame._apply_projection).           *)
(*                                                                         *)
(* `store` is the database, `call` and `result` the call made last and its *)
(* outcome, `projections` the projection objects, `held` the objects the   *)
(* caller holds, `cache` the class-level _path_to_keys_cache, and          *)
(* `threads` the position of every thread that is inside a call.           *)
(*                                                                         *)
(* Python values are tagged records.  Every tag has its own payload field  *)
(* name, so two values of different kinds are unequal records and never    *)
(* compare payloads of different types.                                    *)
(***************************************************************************)
EXTENDS Integers, Sequences, FiniteSets, TLC

VARIABLES store, call, result, projections, held, cache, threads

vars == <<store, call, result, projections, held, cache, threads>>

----------------------------------------------------------------------------
(* Python values *)

None == [t |-> "none"]
PyBool(b) == [t |-> "bool", b |-> b]
PyInt(n) == [t |-> "int", n |-> n]
PyStr(s) == [t |-> "str", s |-> s]
ObjectId(i) == [t |-> "oid", id |-> i]
PyList(s) == [t |-> "list", items |-> s]
PyDict(f) == [t |-> "dict", m |-> f]
PyClass(c) == [t |-> "cls", name |-> c]

\* A keyword argument that was not passed (kwargs.get falls back to a default).
NotPassed == [t |-> "notpassed"]

\* The empty Python dict.
EmptyMap == [k \in {} |-> None]

\* cls(document): the object keeps the very document it is given.
NewFrame(c, d) == [t |-> "frame", cls |-> c, doc |-> d]
NewSubFrame(c, d) == [t |-> "sub", cls |-> c, doc |-> d]

IsDict(v) == v.t = "dict"
IsList(v) == v.t = "list"
IsBaseFrame(v) == v.t \in {"frame", "sub"}

\* Python truthiness (`not value`).
Falsy(v) ==
    \/ v.t = "none"
    \/ v.t = "bool" /\ ~v.b
    \/ v.t = "int" /\ v.n = 0
    \/ v.t = "str" /\ v.s = ""
    \/ v.t = "list" /\ v.items = <<>>
    \/ v.t = "dict" /\ DOMAIN v.m = {}

\* Iteration order of the keys of a Python dict.  A dict iterates in the
\* order its keys were inserted, which the caller's literal decides; `rev`
\* picks one of the two orders of the keys over the fixed vocabulary.
KeyVocabulary ==
    <<"$ref", "$sub", "$sub.", "$slice", "_id", "name", "breed", "lair",
      "inventory", "inventory.keeper", "inventory.owner", "lair.inventory.keeper",
      "gold", "keeper", "owner", "a", "b">>

RECURSIVE Reversed(_)
Reversed(s) == IF s = <<>> THEN <<>> ELSE Append(Reversed(Tail(s)), Head(s))

KeysOf(m, rev) ==
    LET InM(k) == k \in DOMAIN m
        asc == SelectSeq(KeyVocabulary, InM)
    IN  IF rev THEN Reversed(asc) ELSE asc

\* list(d.values()) in iteration order.
ValuesOf(m, rev) == LET ks == KeysOf(m, rev) IN [i \in 1..Len(ks) |-> m[ks[i]]]

\* dict.pop(key): the mapping without the key.
Without(m, key) == [k \in DOMAIN m \ {key} |-> m[k]]

\* d[key] = value
Put(m, key, value) == [k \in DOMAIN m \cup {key} |-> IF k = key THEN value ELSE m[k]]

RECURSIVE Flatten(_)
Flatten(ss) == IF ss = <<>> THEN <<>> ELSE Head(ss) \o Flatten(Tail(ss))

Range(s) == {s[i] : i \in DOMAIN s}

----------------------------------------------------------------------------
(* _BaseFrame._path_to_keys: path.split('.') *)

RECURSIVE SplitFrom(_, _, _)
SplitFrom(path, i, cur) ==
    IF i > Len(path) THEN <<cur>>
    ELSE IF SubSeq(path, i, i) = "."
         THEN <<cur>> \o SplitFrom(path, i + 1, "")
         ELSE SplitFrom(path, i + 1, cur \o SubSeq(path, i, i))

PathToKeys(path) == SplitFrom(path, 1, "")

\* k.startswith('$')
StartsWithDollar(k) == Len(k) >= 1 /\ SubSeq(k, 1, 1) = "$"


----------------------------------------------------------------------------
(* The classes of the test fixtures (tests/fixtures.py).  _FrameMeta adds   *)
(* `_id` to the declared fields of every Frame class.                       *)

FrameClasses == {"Dragon", "ComplexDragon", "Lair"}

Fields(cls) ==
    CASE cls = "Dragon" -> {"_id", "name", "breed"}
      [] cls = "ComplexDragon" -> {"_id", "name", "breed", "dob", "lair", "traits"}
      [] cls = "Lair" -> {"_id", "name", "inventory"}
      [] cls = "Inventory" -> {"gold", "skulls"}

\* ComplexDragon._default_projection; Frame._default_projection is None.
DefaultProjection(cls) ==
    IF cls = "ComplexDragon"
    THEN PyDict([k \in {"lair"} |->
            PyDict([j \in {"$ref", "inventory"} |->
                IF j = "$ref" THEN PyClass("Lair")
                ELSE PyDict([i \in {"$sub"} |-> PyClass("Inventory")])])])
    ELSE None

----------------------------------------------------------------------------
(* Frame._flatten_projection *)

DirectiveTags == {"$ref", "$sub", "$sub."}

\* A bug ProjectValue could have: the operators beside the tag are discarded.
ProjectValueDropsOperators(value) == PyBool(TRUE)

\* The mongo operator keys a field's mapping carries beside its tag.
ProjectValue(value) ==
    LET ops == {k \in DOMAIN value.m : StartsWithDollar(k) /\ k \notin DirectiveTags}
    IN  IF ops = {} THEN PyBool(TRUE) ELSE PyDict([k \in ops |-> value.m[k]])

\* A bug FullProjection could have: the empty projection is passed on as is.
FullProjectionEmpty(cls) == EmptyMap

\* {f: True for f in cls._fields}
FullProjection(cls) == [f \in Fields(cls) |-> PyBool(TRUE)]

\* The keys of the (deep-copied) projection whose value is a mapping.
MappingKeys(p) == {k \in DOMAIN p : IsDict(p[k])}

\* The keys holding a plain value; a stray $ref/$sub/$sub. tag is stripped.
PlainKeys(p) == {k \in DOMAIN p \ MappingKeys(p) : k \notin DirectiveTags}

ReferenceKeys(p) == {k \in MappingKeys(p) : "$ref" \in DOMAIN p[k].m}

SubKeys(p) ==
    {k \in MappingKeys(p) \ ReferenceKeys(p) :
        "$sub" \in DOMAIN p[k].m \/ "$sub." \in DOMAIN p[k].m}

\* Bugs Inclusive could have: the fallback to the full projection is never
\* taken; a plain value does not leave inclusive mode.
InclusiveNever(p) == FALSE
InclusiveDespitePlain(p) ==
    \A k \in MappingKeys(p) : ProjectValue(p[k]) = PyBool(TRUE)

\* `inclusive` after the walk: no plain value and no operator was met.
Inclusive(p) ==
    /\ PlainKeys(p) = {}
    /\ \A k \in MappingKeys(p) : ProjectValue(p[k]) = PyBool(TRUE)

\* A bug DeepCopy could have: no copy is made, and the object walked (and
\* later popped from) is the caller's own.
SameObject(v) == [object |-> "same", value |-> v]

\* deepcopy(projection): an equal value in an object of its own.
DeepCopy(v) == [object |-> "copy", value |-> v]

FlattenProjection(cls, projection) ==
    IF Falsy(projection)
    THEN [flat |-> FullProjection(cls), references |-> EmptyMap, subs |-> EmptyMap]
    ELSE LET p == DeepCopy(projection).value.m
             flat_projection ==
                 [k \in MappingKeys(p) \cup PlainKeys(p) |->
                     IF k \in MappingKeys(p) THEN ProjectValue(p[k]) ELSE p[k]]
         IN  [flat |-> IF Inclusive(p) THEN FullProjection(cls) ELSE flat_projection,
              references |-> [k \in ReferenceKeys(p) |-> p[k]],
              subs |-> [k \in SubKeys(p) |-> p[k]]]

----------------------------------------------------------------------------
(* Outcomes: a call returns a value or raises.                              *)

Return(v) == [exc |-> "none", val |-> v]
Raise(e) == [exc |-> e, val |-> None]

AttributeError == "AttributeError"
SubFrameTypeError == "TypeError: Not a supported sub-frame type"
ItemAssignmentError == "TypeError: object does not support item assignment"
OperationFailure == "OperationFailure"

\* Whether value.get(key) exists: a dict, or a _BaseFrame over a dict.
HasGet(v) == IsDict(v) \/ (IsBaseFrame(v) /\ IsDict(v.doc))

\* dict.get(key) and _BaseFrame.get(key)
Get(v, key) ==
    LET m == IF IsDict(v) THEN v.m ELSE v.doc.m
    IN  IF key \in DOMAIN m THEN m[key] ELSE None

RECURSIVE Traverse(_, _)
Traverse(keys, child_dict) ==
    IF ~HasGet(child_dict) THEN Raise(AttributeError)
    ELSE IF Len(keys) = 1 THEN Return(Get(child_dict, keys[1]))
    ELSE LET next == Get(child_dict, Head(keys))
         IN  IF next = None THEN Return(None) ELSE Traverse(Tail(keys), next)

\* _BaseFrame._path_to_value
PathToValue(path, parent_dict) == Traverse(PathToKeys(path), parent_dict)

\* A bug SetAtKeys could have: the mapping that holds the last key is
\* replaced by one with that key alone.
RECURSIVE SetAtKeysAlone(_, _, _)
SetAtKeysAlone(child_document, keys, value) ==
    IF Len(keys) = 1
    THEN IF IsDict(child_document)
         THEN Return(PyDict([k \in {keys[1]} |-> value]))
         ELSE Raise(ItemAssignmentError)
    ELSE LET inner == SetAtKeysAlone(Get(child_document, Head(keys)), Tail(keys), value)
         IN  IF inner.exc # "none" THEN inner
             ELSE IF IsDict(child_document)
                  THEN Return(PyDict(Put(child_document.m, Head(keys), inner.val)))
                  ELSE Return([child_document EXCEPT
                                  !.doc = PyDict(Put(child_document.doc.m,
                                                     Head(keys), inner.val))])

\* child_document = document; for key in keys[:-1]: child_document =
\* child_document[key]; child_document[keys[-1]] = value.  A _BaseFrame has
\* __getitem__ and no __setitem__.
RECURSIVE SetAtKeys(_, _, _)
SetAtKeys(child_document, keys, value) ==
    IF Len(keys) = 1
    THEN IF IsDict(child_document)
         THEN Return(PyDict(Put(child_document.m, keys[1], value)))
         ELSE Raise(ItemAssignmentError)
    ELSE LET inner == SetAtKeys(Get(child_document, Head(keys)), Tail(keys), value)
         IN  IF inner.exc # "none" THEN inner
             ELSE IF IsDict(child_document)
                  THEN Return(PyDict(Put(child_document.m, Head(keys), inner.val)))
                  ELSE Return([child_document EXCEPT
                                  !.doc = PyDict(Put(child_document.doc.m,
                                                     Head(keys), inner.val))])

SetAtPath(document, path, value) == SetAtKeys(document, PathToKeys(path), value)

----------------------------------------------------------------------------
(* The collection capability: pymongo's find / find_one on the class's      *)
(* collection, with a filter (None, or _id $in ids) and a flat projection.  *)

\* {'_id': {'$in': list(ids)}}
IdIn(ids) == [t |-> "idin", ids |-> ids]

Matches(document, filter) ==
    filter = None \/ Get(document, "_id") \in filter.ids

IsFlag(v) == v.t \in {"bool", "int"}

\* The projection as the store applies it to one stored document.
ProjectDocument(document, flat) ==
    LET included == {k \in DOMAIN flat : IsFlag(flat[k]) /\ ~Falsy(flat[k])}
        excluded == {k \in DOMAIN flat : IsFlag(flat[k]) /\ Falsy(flat[k])}
        sliced == {k \in DOMAIN flat : IsDict(flat[k]) /\ "$slice" \in DOMAIN flat[k].m}
        kept == IF included # {}
                THEN {k \in DOMAIN document.m : k \in included \cup sliced \cup {"_id"}}
                ELSE DOMAIN document.m \ excluded
        Slice(k) == LET v == document.m[k]
                        n == flat[k].m["$slice"].n
                    IN  IF k \in sliced /\ IsList(v) /\ Len(v.items) > n
                        THEN PyList(SubSeq(v.items, 1, n))
                        ELSE v
    IN  PyDict([k \in kept |-> Slice(k)])

\* cls.get_collection().find(filter, projection=flat)
Find(cls, filter, flat, db) ==
    IF \E k \in DOMAIN flat : StartsWithDollar(k)
    THEN Raise(OperationFailure)
    ELSE LET InFilter(d) == Matches(d, filter)
             found == SelectSeq(db[cls], InFilter)
         IN  Return([i \in 1..Len(found) |-> ProjectDocument(found[i], flat)])

\* cls.get_collection().find_one(filter, projection=flat)
FindOne(cls, filter, flat, db) ==
    LET r == Find(cls, filter, flat, db)
    IN  IF r.exc # "none" THEN r
        ELSE IF r.val = <<>> THEN Return(None) ELSE Return(r.val[1])

----------------------------------------------------------------------------
(* The resolvers.  Each returns [exc, docs, log]: the exception raised (or  *)
(* "none"), the documents as the in-place writes leave them, and the        *)
(* events of the pass in order.  `trail` is the position in the projection  *)
(* tree of the directive being resolved (bookkeeping for the log only).     *)

Done(docs, log) == [exc |-> "none", docs |-> docs, log |-> log]
Failed(e, log) == [exc |-> e, docs |-> <<>>, log |-> log]

\* The identifiers one document contributes to `ids`.
IdsAt(value) ==
    IF Falsy(value) THEN {}
    ELSE IF IsList(value) THEN Range(value.items)
    ELSE IF IsDict(value) THEN {value.m[k] : k \in DOMAIN value.m}
    ELSE {value}

\* A bug CollectIds could have: only the first document's identifiers are
\* fetched.
RECURSIVE CollectIdsFirstOnly(_, _)
CollectIdsFirstOnly(path, documents) ==
    IF documents = <<>> THEN Return({})
    ELSE LET r == PathToValue(path, Head(documents))
         IN  IF r.exc # "none" THEN r ELSE Return(IdsAt(r.val))

\* ids = set(); for document in documents: ...
RECURSIVE CollectIds(_, _)
CollectIds(path, documents) ==
    IF documents = <<>> THEN Return({})
    ELSE LET r == PathToValue(path, Head(documents))
         IN  IF r.exc # "none" THEN r
             ELSE LET rest == CollectIds(path, Tail(documents))
                  IN  IF rest.exc # "none" THEN rest
                      ELSE Return(IdsAt(r.val) \cup rest.val)

\* frames = {f._id: f for f in frames}; frames.get(id)
HasFrame(frames, id) == \E i \in DOMAIN frames : Get(frames[i], "_id") = id
FrameFor(frames, id) ==
    IF HasFrame(frames, id)
    THEN frames[CHOOSE i \in DOMAIN frames :
                    /\ Get(frames[i], "_id") = id
                    /\ \A j \in DOMAIN frames : Get(frames[j], "_id") = id => j <= i]
    ELSE None

\* A bug Dereferenced could have: a list is resolved to the frames fetched
\* for it, in the order of the fetch.
DereferencedInFetchOrder(value, frames) ==
    IF IsList(value)
    THEN LET Listed(f) == Get(f, "_id") \in Range(value.items)
         IN  PyList(SelectSeq(frames, Listed))
    ELSE IF IsDict(value)
    THEN PyDict([k \in DOMAIN value.m |-> FrameFor(frames, value.m[k])])
    ELSE FrameFor(frames, value)

\* A bug Dereferenced could have: a dangling identifier is kept in a list as
\* None.
DereferencedKeepsDangling(value, frames) ==
    IF IsList(value)
    THEN PyList([i \in DOMAIN value.items |-> FrameFor(frames, value.items[i])])
    ELSE IF IsDict(value)
    THEN PyDict([k \in DOMAIN value.m |-> FrameFor(frames, value.m[k])])
    ELSE FrameFor(frames, value)

\* The value written back at the path for a (truthy) raw value.
Dereferenced(value, frames) ==
    IF IsList(value)
    THEN LET Found(id) == HasFrame(frames, id)
             ids == SelectSeq(value.items, Found)
         IN  PyList([i \in DOMAIN ids |-> FrameFor(frames, ids[i])])
    ELSE IF IsDict(value)
    THEN PyDict([k \in DOMAIN value.m |-> FrameFor(frames, value.m[k])])
    ELSE FrameFor(frames, value)

\* A bug AddDereferenced could have: a value that is skipped is written back
\* all the same, which gives a document without the key the key.
RECURSIVE AddDereferencedWritesBack(_, _, _)
AddDereferencedWritesBack(path, documents, frames) ==
    IF documents = <<>> THEN Return(<<>>)
    ELSE LET document == Head(documents)
             r == PathToValue(path, document)
             w == IF r.exc # "none" THEN r
                  ELSE IF Falsy(r.val) THEN SetAtPath(document, path, r.val)
                  ELSE SetAtPath(document, path, Dereferenced(r.val, frames))
         IN  IF w.exc # "none" THEN w
             ELSE LET rest == AddDereferencedWritesBack(path, Tail(documents), frames)
                  IN  IF rest.exc # "none" THEN rest
                      ELSE Return(<<w.val>> \o rest.val)

\* A bug AddDereferenced could have: a falsy value is looked up like an
\* identifier, and the path is left holding None.
RECURSIVE AddDereferencedClearsEmpty(_, _, _)
AddDereferencedClearsEmpty(path, documents, frames) ==
    IF documents = <<>> THEN Return(<<>>)
    ELSE LET document == Head(documents)
             r == PathToValue(path, document)
             w == IF r.exc # "none" THEN r
                  ELSE IF r.val = None THEN Return(document)
                  ELSE IF Falsy(r.val) THEN SetAtPath(document, path, None)
                  ELSE SetAtPath(document, path, Dereferenced(r.val, frames))
         IN  IF w.exc # "none" THEN w
             ELSE LET rest == AddDereferencedClearsEmpty(path, Tail(documents), frames)
                  IN  IF rest.exc # "none" THEN rest
                      ELSE Return(<<w.val>> \o rest.val)

\* for document in documents: ... child_document[keys[-1]] = value
RECURSIVE AddDereferenced(_, _, _)
AddDereferenced(path, documents, frames) ==
    IF documents = <<>> THEN Return(<<>>)
    ELSE LET document == Head(documents)
             r == PathToValue(path, document)
             w == IF r.exc # "none" THEN r
                  ELSE IF Falsy(r.val) THEN Return(document)
                  ELSE SetAtPath(document, path, Dereferenced(r.val, frames))
         IN  IF w.exc # "none" THEN w
             ELSE LET rest == AddDereferenced(path, Tail(documents), frames)
                  IN  IF rest.exc # "none" THEN rest
                      ELSE Return(<<w.val>> \o rest.val)

\* The log of an outcome, prefixed by what was logged before it.
WithLog(log, r) == [r EXCEPT !.log = log \o r.log]

\* The outcome of a write loop as the outcome of the pass.
Written(w, log) ==
    IF w.exc # "none" THEN Failed(w.exc, log) ELSE Done(w.val, log)

RECURSIVE ManyCall(_, _, _, _, _, _)
RECURSIVE DereferenceEntries(_, _, _, _, _, _)
RECURSIVE DereferenceRest(_, _, _, _, _, _)
RECURSIVE ApplySubFramesEntries(_, _, _, _, _, _)
RECURSIVE ApplySubFramesRest(_, _, _, _, _, _)
RECURSIVE ApplyProjection(_, _, _, _, _)

\* frames = {f._id: f for f in frames}, then the write loop.
AddFrames(documents, path, m) ==
    IF m.exc # "none" THEN m
    ELSE Written(AddDereferenced(path, documents, m.docs), m.log)

\* A bug FetchReferenced could have: a reference of the query that carries no
\* nested projection is fetched with the target's default projection.
FetchReferencedWithDefault(documents, path, projection, c, db, rev, trail) ==
    IF c.exc # "none" THEN Failed(c.exc, <<>>)
    ELSE AddFrames(documents, path,
             ManyCall(projection.m["$ref"].name, IdIn(c.val),
                      IF trail = <<>> /\ DOMAIN projection.m = {"$ref"}
                      THEN NotPassed
                      ELSE PyDict(Without(projection.m, "$ref")),
                      db, rev, Append(trail, path)))

\* ref = projection.pop('$ref'); frames = ref.many({'_id': {'$in':
\* list(ids)}}, projection=projection)
FetchReferenced(documents, path, projection, c, db, rev, trail) ==
    IF c.exc # "none" THEN Failed(c.exc, <<>>)
    ELSE AddFrames(documents, path,
             ManyCall(projection.m["$ref"].name, IdIn(c.val),
                      PyDict(Without(projection.m, "$ref")),
                      db, rev, Append(trail, path)))

\* One entry (path, projection) of the reference table.
DereferenceEntry(documents, path, projection, db, rev, trail) ==
    IF "$ref" \notin DOMAIN projection.m THEN Done(documents, <<>>)
    ELSE FetchReferenced(documents, path, projection,
                         CollectIds(path, documents), db, rev, trail)

DereferenceRest(r, references, paths, db, rev, trail) ==
    IF r.exc # "none" THEN r
    ELSE WithLog(r.log,
                 DereferenceEntries(r.docs, references, paths, db, rev, trail))

\* Frame._dereference: the entries in the table's iteration order.
DereferenceEntries(documents, references, paths, db, rev, trail) ==
    IF paths = <<>> THEN Done(documents, <<>>)
    ELSE DereferenceRest(
             DereferenceEntry(documents, Head(paths), references[Head(paths)],
                              db, rev, trail),
             references, Tail(paths), db, rev, trail)

Dereference(documents, references, db, rev, trail) ==
    DereferenceEntries(documents, references, KeysOf(references, rev), db, rev, trail)

\* The raw values one document adds to raw_subs, for a value that is a
\* mapping or a list.
RawSubsAt(value, expect_map) ==
    IF IsDict(value)
    THEN IF expect_map THEN ValuesOf(value.m, FALSE) ELSE <<value>>
    ELSE value.items

\* A bug ScanSubs could have: a value of None is not skipped and is taken
\* for an unsupported type.
RECURSIVE ScanSubsRejectsNone(_, _, _)
ScanSubsRejectsNone(path, documents, expect_map) ==
    IF documents = <<>> THEN Return(<<>>)
    ELSE LET r == PathToValue(path, Head(documents))
         IN  IF r.exc # "none" THEN r
             ELSE IF ~(IsDict(r.val) \/ IsList(r.val)) THEN Raise(SubFrameTypeError)
             ELSE IF SetAtPath(Head(documents), path, None).exc # "none"
             THEN Raise(SetAtPath(Head(documents), path, None).exc)
             ELSE LET rest == ScanSubsRejectsNone(path, Tail(documents), expect_map)
                  IN  IF rest.exc # "none" THEN rest
                      ELSE Return(<<RawSubsAt(r.val, expect_map)>> \o rest.val)

\* for document in documents: the shape of the value at the path; the first
\* document that raises ends the loop.  Returns the raw values per document.
RECURSIVE ScanSubs(_, _, _)
ScanSubs(path, documents, expect_map) ==
    IF documents = <<>> THEN Return(<<>>)
    ELSE LET document == Head(documents)
             r == PathToValue(path, document)
             here == IF r.exc # "none" THEN r
                     ELSE IF r.val = None THEN Return(<<>>)
                     ELSE IF ~(IsDict(r.val) \/ IsList(r.val))
                     THEN Raise(SubFrameTypeError)
                     ELSE IF SetAtPath(document, path, None).exc # "none"
                     THEN Raise(SetAtPath(document, path, None).exc)
                     ELSE Return(RawSubsAt(r.val, expect_map))
         IN  IF here.exc # "none" THEN here
             ELSE LET rest == ScanSubs(path, Tail(documents), expect_map)
                  IN  IF rest.exc # "none" THEN rest
                      ELSE Return(<<here.val>> \o rest.val)

\* [sub(u) for u in v if isinstance(u, dict)]
WrapList(items, sub) ==
    LET ds == SelectSeq(items, IsDict)
    IN  PyList([i \in DOMAIN ds |-> NewSubFrame(sub, ds[i])])

\* A bug Wrapped could have: the map variant wraps a list-valued entry as one
\* sub-frame.
WrappedListAsOne(value, expect_map, sub, raws) ==
    IF IsDict(value)
    THEN IF expect_map
         THEN LET ks == KeysOf(value.m, FALSE)
              IN  PyDict([k \in DOMAIN value.m |->
                      NewSubFrame(sub, raws[CHOOSE j \in DOMAIN ks : ks[j] = k])])
         ELSE NewSubFrame(sub, raws[1])
    ELSE PyList([i \in DOMAIN raws |-> NewSubFrame(sub, raws[i])])

\* The value written back at the path.  `raws` are the document's raw values
\* as the nested projection left them: sub(v) keeps the mapping v itself, so
\* the writes of the nested pass show through the sub-frame.
Wrapped(value, expect_map, sub, raws) ==
    IF IsDict(value)
    THEN IF expect_map
         THEN LET ks == KeysOf(value.m, FALSE)
              IN  PyDict([k \in DOMAIN value.m |->
                      LET v == raws[CHOOSE j \in DOMAIN ks : ks[j] = k]
                      IN  IF IsList(v) THEN WrapList(v.items, sub)
                          ELSE NewSubFrame(sub, v)])
         ELSE NewSubFrame(sub, raws[1])
    ELSE WrapList(raws, sub)

\* child_document[keys[-1]] = value, for every document with a value.
RECURSIVE WriteSubs(_, _, _, _, _)
WriteSubs(path, documents, expect_map, sub, raw_subs) ==
    IF documents = <<>> THEN <<>>
    ELSE LET document == Head(documents)
             value == PathToValue(path, document).val
             n == IF value = None THEN 0 ELSE Len(RawSubsAt(value, expect_map))
             written == IF value = None THEN document
                        ELSE SetAtPath(document, path,
                                 Wrapped(value, expect_map, sub,
                                         SubSeq(raw_subs, 1, n))).val
         IN  <<written>> \o WriteSubs(path, Tail(documents), expect_map, sub,
                                      SubSeq(raw_subs, n + 1, Len(raw_subs)))


\* sub = projection.pop('$sub') or projection.pop('$sub.')
ExpectMap(projection) == "$sub" \notin DOMAIN projection.m
SubTag(projection) == IF ExpectMap(projection) THEN "$sub." ELSE "$sub"
SubClass(projection) == projection.m[SubTag(projection)].name
SubNested(projection) == PyDict(Without(projection.m, SubTag(projection)))

\* The event of one embedding entry: `raw_subs` is the flat list the nested
\* projection is applied to (empty when the scan raised).
SubEvent(path, projection, trail, raw_subs) ==
    <<[ev |-> "sub_frames", cls |-> SubClass(projection), at |-> Append(trail, path),
       raw_subs |-> raw_subs]>>

\* The documents with the wrapped values written back at the path.
WriteSubFrames(documents, path, projection, applied) ==
    IF applied.exc # "none" THEN applied
    ELSE Done(WriteSubs(path, documents, ExpectMap(projection),
                        SubClass(projection), applied.docs),
              applied.log)

\* if projection: sub._apply_projection(raw_subs, projection)
ApplyNested(raw_subs, nested, db, rev, at) ==
    IF Falsy(nested) THEN Done(raw_subs, <<>>)
    ELSE ApplyProjection(raw_subs, nested, db, rev, at)

SubFramesScanned(documents, path, projection, scan, db, rev, trail) ==
    IF scan.exc # "none" THEN Failed(scan.exc, SubEvent(path, projection, trail, <<>>))
    ELSE WriteSubFrames(documents, path, projection,
             WithLog(SubEvent(path, projection, trail, Flatten(scan.val)),
                     ApplyNested(Flatten(scan.val), SubNested(projection),
                                 db, rev, Append(trail, path))))

\* One entry (path, projection) of the embedding table.
ApplySubFramesEntry(documents, path, projection, db, rev, trail) ==
    IF "$sub" \notin DOMAIN projection.m /\ "$sub." \notin DOMAIN projection.m
    THEN Done(documents, <<>>)
    ELSE SubFramesScanned(documents, path, projection,
                          ScanSubs(path, documents, ExpectMap(projection)),
                          db, rev, trail)

ApplySubFramesRest(r, subs, paths, db, rev, trail) ==
    IF r.exc # "none" THEN r
    ELSE WithLog(r.log,
                 ApplySubFramesEntries(r.docs, subs, paths, db, rev, trail))

\* Frame._apply_sub_frames: the entries in the table's iteration order.
ApplySubFramesEntries(documents, subs, paths, db, rev, trail) ==
    IF paths = <<>> THEN Done(documents, <<>>)
    ELSE ApplySubFramesRest(
             ApplySubFramesEntry(documents, Head(paths), subs[Head(paths)],
                                 db, rev, trail),
             subs, Tail(paths), db, rev, trail)

ApplySubFrames(documents, subs, db, rev, trail) ==
    ApplySubFramesEntries(documents, subs, KeysOf(subs, rev), db, rev, trail)

\* if subs: cls._apply_sub_frames(documents, subs)
ResolveSubs(d, subs, db, rev, trail) ==
    IF d.exc # "none" \/ DOMAIN subs = {} THEN d
    ELSE WithLog(d.log, ApplySubFrames(d.docs, subs, db, rev, trail))

\* if references: cls._dereference(documents, references)
ResolveReferences(documents, references, db, rev, trail) ==
    IF DOMAIN references = {} THEN Done(documents, <<>>)
    ELSE Dereference(documents, references, db, rev, trail)

\* A bug Resolve could have: the sub-frames are added before the references
\* are resolved.
ResolveSubsFirst(documents, references, subs, db, rev, trail) ==
    LET s == ResolveSubs(Done(documents, <<>>), subs, db, rev, trail)
    IN  IF s.exc # "none" THEN s
        ELSE WithLog(s.log, ResolveReferences(s.docs, references, db, rev, trail))

\* Dereference, then add sub-frames, each only when its table has entries.
Resolve(documents, references, subs, db, rev, trail) ==
    ResolveSubs(ResolveReferences(documents, references, db, rev, trail),
                subs, db, rev, trail)

\* SubFrame._apply_projection
ApplyProjection(documents, projection, db, rev, trail) ==
    Resolve(documents,
            [k \in ReferenceKeys(DeepCopy(projection).value.m) |->
                DeepCopy(projection).value.m[k]],
            [k \in SubKeys(DeepCopy(projection).value.m) |->
                DeepCopy(projection).value.m[k]],
            db, rev, trail)

\* kwargs.get('projection', cls._default_projection)
\* A bug ProjectionArgument could have (`kwargs.get('projection') or
\* cls._default_projection`): an explicit empty projection falls back to the
\* default one.
ProjectionArgumentOrDefault(cls, projection) ==
    IF projection = NotPassed \/ Falsy(projection)
    THEN projections.default[cls] ELSE projection

ProjectionArgument(cls, projection) ==
    IF projection = NotPassed THEN projections.default[cls] ELSE projection

CallEvents(cls, filter, flat, trail) ==
    <<[ev |-> "flatten", cls |-> cls, at |-> trail],
      [ev |-> "find", cls |-> cls, filter |-> filter, projection |-> flat,
       at |-> trail]>>

\* return [cls(d) for d in documents]
Frames(cls, r, trail) ==
    IF r.exc # "none" THEN r
    ELSE Done([i \in DOMAIN r.docs |-> NewFrame(cls, r.docs[i])],
              Append(r.log, [ev |-> "frames", cls |-> cls, at |-> trail]))

\* The documents found, dereferenced and given their sub-frames.
Fetched(cls, filter, c, f, db, rev, trail) ==
    IF f.exc # "none" THEN Failed(f.exc, CallEvents(cls, filter, c.flat, trail))
    ELSE Frames(cls,
                WithLog(CallEvents(cls, filter, c.flat, trail),
                        Resolve(f.val, c.references, c.subs, db, rev, trail)),
                trail)

ManyCompiled(cls, filter, c, db, rev, trail) ==
    Fetched(cls, filter, c, Find(cls, filter, c.flat, db), db, rev, trail)

\* Frame.many
ManyCall(cls, filter, projection, db, rev, trail) ==
    ManyCompiled(cls, filter,
                 FlattenProjection(cls, ProjectionArgument(cls, projection)),
                 db, rev, trail)

\* if not document: return
FoundOne(cls, filter, c, f, db, rev) ==
    IF f.exc = "none" /\ Falsy(f.val)
    THEN Done(<<>>, CallEvents(cls, filter, c.flat, <<>>))
    ELSE Fetched(cls, filter, c, [f EXCEPT !.val = <<f.val>>], db, rev, <<>>)

OneCompiled(cls, filter, c, db, rev) ==
    FoundOne(cls, filter, c, FindOne(cls, filter, c.flat, db), db, rev)

\* Frame.one: docs is <<>> when no document was found.
OneCall(cls, filter, projection, db, rev) ==
    OneCompiled(cls, filter,
                FlattenProjection(cls, ProjectionArgument(cls, projection)),
                db, rev)

\* projection.pop(tag) on the mapping reached from `v` through the keys of
\* `trail`: '$ref' for a reference, '$sub' or else '$sub.' for an embedding.
RECURSIVE PopAt(_, _, _)
PopAt(v, trail, ev) ==
    IF trail = <<>>
    THEN PyDict(Without(v.m, IF ev = "flatten" THEN "$ref"
                              ELSE IF "$sub" \in DOMAIN v.m THEN "$sub" ELSE "$sub."))
    ELSE PyDict([v.m EXCEPT ![Head(trail)] = PopAt(@, Tail(trail), ev)])

\* The object the tables were built from, after the pops of the pass: one
\* for every target query made and every embedding entry started.
RECURSIVE PoppedBy(_, _)
PoppedBy(v, log) ==
    IF log = <<>> THEN v
    ELSE LET e == Head(log)
         IN  PoppedBy(IF e.ev \in {"flatten", "sub_frames"} /\ e.at # <<>>
                      THEN PopAt(v, e.at, e.ev) ELSE v,
                      Tail(log))

\* A projection object after a call that compiled it: the pops reach it only
\* if the compiler worked on the object itself.
AfterCall(object, log) ==
    IF Falsy(object) \/ DeepCopy(object).object = "copy" THEN object
    ELSE PoppedBy(object, log)

----------------------------------------------------------------------------
(* Compiling projections on their own: every structured projection built    *)
(* from the entries below, for every class.                                 *)

Map1(k, v) == [x \in {k} |-> v]
Map2(k1, v1, k2, v2) == [x \in {k1, k2} |-> IF x = k1 THEN v1 ELSE v2]

True == PyBool(TRUE)

SliceArg == PyInt(2)

RefLair == PyDict(Map1("$ref", PyClass("Lair")))
SubInventory == PyDict(Map1("$sub", PyClass("Inventory")))
SubMapInventory == PyDict(Map1("$sub.", PyClass("Inventory")))

CompileEntries ==
    { True, PyBool(FALSE),
      RefLair,
      PyDict(Map2("$ref", PyClass("Lair"), "$slice", SliceArg)),
      PyDict(Map2("$ref", PyClass("Lair"), "inventory", SubInventory)),
      SubInventory,
      PyDict(Map2("$sub.", PyClass("Inventory"), "$slice", SliceArg)),
      PyDict(Map1("$slice", SliceArg)) }

CompileKeys == {"name", "lair", "inventory.keeper"}

CompileMaps == UNION {[K -> CompileEntries] : K \in SUBSET CompileKeys}

\* None, every mapping over the keys, and each again with a stray tag at the
\* root.
CompileProjections ==
    {None}
    \cup {PyDict(m) : m \in CompileMaps}
    \cup {PyDict(Put(m, "$ref", PyClass("Lair"))) : m \in CompileMaps}

Collections == {"ComplexDragon", "Lair"}

EmptyStore == [c \in Collections |-> <<>>]
NoCall == [op |-> "none"]

\* The objects the caller holds between calls (frames, a paginator): none.
NoObjects == <<>>
NoResult == [exc |-> "none"]

\* No thread is inside a call: the calls are made one after another.
NoThreads == <<>>

\* The caller's arguments to cls._flatten_projection, before the call.
CompileCalls ==
    {[op |-> "flatten", cls |-> cls, projection |-> projection] :
        cls \in FrameClasses, projection \in CompileProjections}

\* The projection objects: each class's _default_projection, and the object
\* the caller passed to the call in progress.
DeclaredProjections ==
    [default |-> [cls \in FrameClasses |-> DefaultProjection(cls)],
     passed |-> NotPassed]

InitCompile ==
    /\ store = EmptyStore /\ call \in CompileCalls /\ result = NoResult
    /\ projections = DeclaredProjections
    /\ held = NoObjects
    /\ cache = EmptyMap /\ threads = NoThreads

\* cls._flatten_projection(projection)
Compile ==
    /\ call.op = "flatten"
    /\ result = NoResult
    /\ result' = FlattenProjection(call.cls, call.projection)
    /\ UNCHANGED <<store, call, projections, held, cache, threads>>

NextCompile == Compile

SpecCompile == InitCompile /\ [][NextCompile]_vars

----------------------------------------------------------------------------
(* The store and the calls made on it.  `call` is the operation performed   *)
(* last with its arguments, `result` its outcome.                           *)

MaxDocuments == 3

Map3(k1, v1, k2, v2, k3, v3) ==
    [x \in {k1, k2, k3} |-> IF x = k1 THEN v1 ELSE IF x = k2 THEN v2 ELSE v3]

\* insert_one gives each document a fresh ObjectId: 1, 2, ... for dragons and
\* 10, 20, ... for lairs.
IdStep(cls) == IF cls = "Lair" THEN 10 ELSE 1
NextId(cls, db) == ObjectId(IdStep(cls) * (Len(db[cls]) + 1))

Gold(n) == PyDict(Map1("gold", PyInt(n)))
GoldKept(n, keeper) == PyDict(Map2("gold", PyInt(n), "keeper", ObjectId(keeper)))

\* What a dragon's `lair` holds: one identifier, a list or a keyed map of
\* identifiers, or nothing.
DragonDocuments ==
    { Map2("name", PyStr("Burt"), "lair", ObjectId(10)),
      Map2("name", PyStr("Fred"), "lair", ObjectId(20)),
      Map2("name", PyStr("Albert"), "lair",
           PyList(<<ObjectId(20), ObjectId(10), ObjectId(20)>>)),
      Map2("name", PyStr("Smaug"), "lair",
           PyDict(Map2("a", ObjectId(10), "b", ObjectId(20)))),
      Map1("name", PyStr("Puff")) }

\* What a lair's `inventory` holds: one embedded document, a list of them, a
\* keyed map of them (an entry may be a list), a scalar, or None.
LairDocuments ==
    { Map2("name", PyStr("Cave"), "inventory", Gold(1000)),
      Map2("name", PyStr("Den"), "inventory", GoldKept(2000, 1)),
      Map2("name", PyStr("Hoard"), "inventory",
           PyList(<<GoldKept(1000, 2), Gold(2000), GoldKept(3000, 1)>>)),
      Map2("name", PyStr("Vault"), "inventory",
           PyDict(Map2("a", GoldKept(1000, 1), "b", PyList(<<Gold(2000)>>)))),
      Map2("name", PyStr("Pit"), "inventory", PyInt(5)),
      Map2("name", PyStr("Nest"), "inventory", None) }

Candidates(cls) == IF cls = "Lair" THEN LairDocuments ELSE DragonDocuments

RefDragon == PyDict(Map1("$ref", PyClass("ComplexDragon")))
SubKept == PyDict(Map2("$sub", PyClass("Inventory"), "keeper", RefDragon))
SubMapKept == PyDict(Map2("$sub.", PyClass("Inventory"), "keeper", RefDragon))
RefLairWith(inventory) ==
    PyDict(Map2("$ref", PyClass("Lair"), "inventory", inventory))

\* The projection arguments of the calls.
Projections(cls) ==
    IF cls = "ComplexDragon"
    THEN { NotPassed, None,
           PyDict(Map1("name", True)),
           PyDict(Map1("lair", RefLair)),
           PyDict(Map2("name", True, "lair", RefLair)),
           PyDict(Map1("lair", RefLairWith(SubMapInventory))),
           PyDict(Map1("lair", RefLairWith(SubKept))),
           PyDict(Map1("lair", RefLairWith(SubMapKept))) }
    ELSE { NotPassed,
           PyDict(Map1("inventory", SubInventory)),
           PyDict(Map1("inventory", SubMapInventory)),
           PyDict(Map1("inventory", SubKept)),
           PyDict(Map1("inventory", SubMapKept)),
           PyDict(Map2("name", True, "inventory", SubInventory)),
           PyDict(Map1("inventory.keeper", RefDragon)),
           PyDict(Map2("inventory.keeper", RefDragon, "keeper", RefDragon)) }

\* The filters of the calls: none, or one document by its _id.
Filters(cls) == {None, IdIn({ObjectId(IdStep(cls) * 2)})}

\* The two iteration orders differ only for a table of several entries.
Orders(projection) ==
    IF IsDict(projection) /\ Cardinality(ReferenceKeys(projection.m)) > 1
    THEN BOOLEAN ELSE {FALSE}

Init ==
    /\ store = EmptyStore /\ call = NoCall /\ result = NoResult
    /\ projections = DeclaredProjections
    /\ held = NoObjects
    /\ cache = EmptyMap /\ threads = NoThreads

\* The caller makes one call at a time.
Idle == call = NoCall

\* The projection objects after a call on `cls`: the one compiled is the
\* caller's, or the class's default one when none was passed.
Held(cls, projection, log) ==
    IF projection = NotPassed
    THEN [projections EXCEPT !.default[cls] = AfterCall(@, log)]
    ELSE [projections EXCEPT !.passed = AfterCall(projection, log)]

\* Frame.insert
Insert(cls, fields) ==
    /\ Idle
    /\ Len(store["ComplexDragon"]) + Len(store["Lair"]) < MaxDocuments
    /\ LET document == PyDict(Put(fields, "_id", NextId(cls, store)))
       IN  store' = [store EXCEPT ![cls] = Append(@, document)]
    /\ UNCHANGED <<call, result, projections, held, cache, threads>>

\* Frame.many
Many(cls, projection, rev) ==
    /\ Idle
    /\ call' = [op |-> "many", cls |-> cls, filter |-> None,
                projection |-> projection, rev |-> rev]
    /\ result' = ManyCall(cls, None, projection, store, rev, <<>>)
    /\ projections' = Held(cls, projection, result'.log)
    /\ UNCHANGED <<store, held, cache, threads>>

\* Frame.one
One(cls, filter, projection, rev) ==
    /\ Idle
    /\ call' = [op |-> "one", cls |-> cls, filter |-> filter,
                projection |-> projection, rev |-> rev]
    /\ result' = OneCall(cls, filter, projection, store, rev)
    /\ projections' = Held(cls, projection, result'.log)
    /\ UNCHANGED <<store, held, cache, threads>>

\* frame = self.one({'_id': self._id}, **kwargs); self._document =
\* frame._document.  When no document has the _id, `frame` is None.
Reloaded(r) ==
    IF r.exc = "none" /\ r.docs = <<>> THEN Failed(AttributeError, r.log) ELSE r

\* Frame.reload, on a frame with the _id of the filter: docs holds the frame
\* whose document the reloaded frame takes.
Reload(cls, filter, projection, rev) ==
    /\ Idle
    /\ call' = [op |-> "reload", cls |-> cls, filter |-> filter,
                projection |-> projection, rev |-> rev]
    /\ result' = Reloaded(OneCall(cls, filter, projection, store, rev))
    /\ projections' = Held(cls, projection, result'.log)
    /\ UNCHANGED <<store, held, cache, threads>>

\* The caller is done with what the call returned (or raised).
Finish ==
    /\ ~Idle
    /\ call' = NoCall
    /\ result' = NoResult
    /\ projections' = [projections EXCEPT !.passed = NotPassed]
    /\ UNCHANGED <<store, held, cache, threads>>

Next ==
    \/ \E cls \in Collections : \E fields \in Candidates(cls) : Insert(cls, fields)
    \/ \E cls \in Collections : \E projection \in Projections(cls) :
          \E rev \in Orders(projection) : Many(cls, projection, rev)
    \/ \E cls \in Collections : \E projection \in Projections(cls) :
          \E filter \in Filters(cls) : \E rev \in Orders(projection) :
             One(cls, filter, projection, rev)
    \/ \E cls \in Collections : \E projection \in Projections(cls) :
          \E filter \in Filters(cls) \ {None} : \E rev \in Orders(projection) :
             Reload(cls, filter, projection, rev)
    \/ Finish

Spec == Init /\ [][Next]_vars

----------------------------------------------------------------------------
(* Claims about queries, checked under Spec.                                *)

Called == call.op \in {"many", "one"}
Returned == Called /\ result.exc = "none"

\* The projection the call compiles.
Effective == ProjectionArgument(call.cls, call.projection)
TopReferences == IF IsDict(Effective) THEN ReferenceKeys(Effective.m) ELSE {}
TopSubs == IF IsDict(Effective) THEN SubKeys(Effective.m) ELSE {}
Target(p) == Effective.m[p].m["$ref"].name

\* The stored documents the call is about, in the order it returns them.
Sources ==
    LET Hit(d) == Matches(d, call.filter)
        found == SelectSeq(store[call.cls], Hit)
    IN  IF call.op = "one" /\ Len(found) > 1 THEN <<found[1]>> ELSE found

RawAt(p, i) == PathToValue(p, Sources[i]).val
GotAt(p, i) == PathToValue(p, result.docs[i]).val
Stored(cls, id) == \E i \in DOMAIN store[cls] : Get(store[cls][i], "_id") = id
StoredDocument(cls, id) ==
    store[cls][CHOOSE i \in DOMAIN store[cls] : Get(store[cls][i], "_id") = id]

\* The identifiers the stored documents hold at a path, as a set.
SourceIds(p) ==
    UNION { LET v == RawAt(p, i)
            IN  IF v = None THEN {}
                ELSE IF IsList(v) THEN Range(v.items)
                ELSE IF IsDict(v) THEN Range(v.m)
                ELSE {v} : i \in DOMAIN Sources }

IsFind(e) == e.ev = "find"
Fetches == SelectSeq(result.log, IsFind)

IsTagged(v) ==
    IsDict(v) /\ DOMAIN v.m \cap {"$ref", "$sub", "$sub."} # {}

\* The number of reference directives in a projection tree.
RECURSIVE ReferenceDirectivesIn(_, _)
ReferenceDirectivesIn(projection, keys) ==
    IF keys = <<>> THEN 0
    ELSE LET v == projection.m[Head(keys)]
             here == IF StartsWithDollar(Head(keys)) \/ ~IsTagged(v) THEN 0
                     ELSE (IF "$ref" \in DOMAIN v.m THEN 1 ELSE 0)
                          + ReferenceDirectivesIn(v, KeysOf(v.m, FALSE))
         IN  here + ReferenceDirectivesIn(projection, Tail(keys))

ReferenceDirectives(projection) ==
    IF IsDict(projection)
    THEN ReferenceDirectivesIn(projection, KeysOf(projection.m, FALSE))
    ELSE 0

\* C1: a `many` call that returns has issued one fetch for the query itself
\* and exactly one more for each reference directive of the projection tree,
\* whatever the number of documents and of identifiers they hold; no two
\* fetches are for the same directive, and the fetch for a reference entry of
\* the query is made on the target class with one `_id in set` filter over
\* the union of the identifiers found at the path in all the documents.
C1_OneFetchPerReference ==
    (call.op = "many" /\ result.exc = "none") =>
        /\ Len(Fetches) = 1 + ReferenceDirectives(Effective)
        /\ \A i, j \in DOMAIN Fetches : Fetches[i].at = Fetches[j].at => i = j
        /\ \A p \in TopReferences : \E i \in DOMAIN Fetches :
              /\ Fetches[i].at = <<p>>
              /\ Fetches[i].cls = Target(p)
              /\ Fetches[i].filter = IdIn(SourceIds(p))

\* Several documents hold the same identifier and one fetch resolved them.
C1_Witness ==
    /\ call.op = "many" /\ result.exc = "none"
    /\ "lair" \in TopReferences
    /\ \E i, j \in DOMAIN Sources :
          i # j /\ RawAt("lair", i) = RawAt("lair", j) /\ RawAt("lair", i) # None
    /\ Stored("Lair", RawAt("lair", 1))
    /\ GotAt("lair", 1) = GotAt("lair", 2)
    /\ GotAt("lair", 1).t = "frame"
    /\ Len(Fetches) = 2

\* Whether every directive path of `projection` inside `v` holds typed
\* objects, at every depth.
RECURSIVE ResolvedIn(_, _)
RECURSIVE TypedAs(_, _)
ResolvedIn(v, projection) ==
    \A k \in DOMAIN projection.m :
        \/ StartsWithDollar(k)
        \/ ~IsTagged(projection.m[k])
        \/ LET got == PathToValue(k, v)
           IN  got.exc = "none" /\ TypedAs(got.val, projection.m[k])

TypedAs(x, d) ==
    IF "$ref" \in DOMAIN d.m
    THEN LET Typed(y) ==
                 \/ y = None
                 \/ y.t = "frame" /\ y.cls = d.m["$ref"].name /\ ResolvedIn(y, d)
         IN  IF IsList(x) THEN \A i \in DOMAIN x.items : Typed(x.items[i])
             ELSE IF IsDict(x) THEN \A k \in DOMAIN x.m : Typed(x.m[k])
             ELSE Typed(x)
    ELSE LET Typed(y) ==
                 y.t = "sub" /\ y.cls = SubClass(d) /\ IsDict(y.doc) /\ ResolvedIn(y, d)
             TypedList(y) ==
                 IsList(y) /\ \A i \in DOMAIN y.items : Typed(y.items[i])
         IN  \/ x = None
             \/ TypedList(x)
             \/ ~IsList(x) /\ ~IsDict(x) /\ Typed(x)
             \/ /\ ExpectMap(d) /\ IsDict(x)
                /\ \A k \in DOMAIN x.m : TypedList(x.m[k]) \/ (~IsList(x.m[k]) /\ Typed(x.m[k]))

\* A directive of the projection carries a directive in its nested projection.
Nests(projection) ==
    /\ IsDict(projection)
    /\ \E k \in DOMAIN projection.m :
          /\ IsTagged(projection.m[k])
          /\ \E n \in DOMAIN projection.m[k].m : IsTagged(projection.m[k].m[n])

\* The embedding directive of the projection: on `inventory`, of the lairs
\* queried or of the lairs referenced.
InventoryDirective ==
    IF call.cls = "Lair" THEN Effective.m["inventory"]
    ELSE Effective.m["lair"].m["inventory"]

\* A stored value the directive is meant for: a mapping or a list of
\* mappings, or with the map variant a keyed map of them.
AllMappings(v) == IsList(v) /\ \A i \in DOMAIN v.items : IsDict(v.items[i])
Embeddable(v, expect_map) ==
    \/ v = None
    \/ AllMappings(v)
    \/ IsDict(v) /\ ~expect_map
    \/ /\ IsDict(v) /\ expect_map
       /\ \A k \in DOMAIN v.m : IsDict(v.m[k]) \/ AllMappings(v.m[k])

\* C2, as claimed: a call with a projection that nests directives, over
\* stored values of the shapes its embedding directive is meant for, resolves
\* every level: it returns, and every directive path holds typed objects at
\* every depth.
C2_AsClaimed ==
    (/\ Called /\ Nests(Effective)
     /\ \A l \in Range(store["Lair"]) :
           Embeddable(Get(l, "inventory"), ExpectMap(InventoryDirective)))
    => /\ result.exc = "none"
       /\ \A i \in DOMAIN result.docs : ResolvedIn(result.docs[i], Effective)

\* What a stored identifier resolves to: the frame of the stored document
\* with that _id, or None when there is none.
ResolvesTo(cls, id, f) ==
    IF Stored(cls, id)
    THEN /\ f.t = "frame" /\ f.cls = cls
         /\ Get(f, "_id") = id
         /\ Get(f, "name") = Get(StoredDocument(cls, id), "name")
    ELSE f = None

FoundIn(cls, ids) ==
    LET Known(id) == Stored(cls, id) IN SelectSeq(ids, Known)

\* C3: after a call that returns, every document holds at each reference
\* path of the query: for one identifier the frame with that _id; for a list
\* the frames of the identifiers found, in the order of the identifiers with
\* duplicates kept; for a keyed map the same keys with the frames as values.
C3_ReferencesReplaced ==
    Returned =>
        /\ Len(result.docs) = Len(Sources)
        /\ \A p \in TopReferences : \A i \in DOMAIN Sources :
              LET raw == RawAt(p, i)
                  got == GotAt(p, i)
              IN  IF raw = None THEN got = None
                  ELSE IF IsList(raw)
                  THEN /\ IsList(got)
                       /\ Len(got.items) = Len(FoundIn(Target(p), raw.items))
                       /\ \A j \in DOMAIN got.items :
                             ResolvesTo(Target(p), FoundIn(Target(p), raw.items)[j],
                                        got.items[j])
                  ELSE IF IsDict(raw)
                  THEN /\ IsDict(got)
                       /\ DOMAIN got.m = DOMAIN raw.m
                       /\ \A k \in DOMAIN raw.m : ResolvesTo(Target(p), raw.m[k], got.m[k])
                  ELSE ResolvesTo(Target(p), raw, got)

\* A list with a repeated identifier was resolved to as many frames.
C3_Witness ==
    /\ Returned
    /\ \E p \in TopReferences : \E i \in DOMAIN Sources :
          /\ IsList(RawAt(p, i))
          /\ Len(GotAt(p, i).items) = 3
          /\ GotAt(p, i).items[1] = GotAt(p, i).items[3]
          /\ GotAt(p, i).items[1] # GotAt(p, i).items[2]

\* The projection holds reference directives only, at one-segment paths and
\* without nested projections.
OnlyReferences ==
    /\ TopReferences # {} /\ TopSubs = {}
    /\ \A p \in TopReferences :
          /\ Len(PathToKeys(p)) = 1
          /\ DOMAIN Effective.m[p].m = {"$ref"}

FrameIds(items) == [i \in DOMAIN items |-> Get(items[i], "_id")]

\* C4: a call whose projection holds reference directives only never raises,
\* whatever identifiers dangle: a dangling identifier at a single-value path
\* resolves to None, in a list it is dropped and the others keep their order,
\* and in a keyed map its key is kept with the value None.
C4_DanglingIsAbsence ==
    (Called /\ OnlyReferences) =>
        /\ result.exc = "none"
        /\ \A p \in TopReferences : \A i \in DOMAIN Sources :
              LET raw == RawAt(p, i)
                  got == GotAt(p, i)
              IN  /\ (raw.t = "oid" /\ ~Stored(Target(p), raw)) => got = None
                  /\ IsList(raw) =>
                        /\ IsList(got)
                        /\ \A j \in DOMAIN got.items : got.items[j] # None
                        /\ FrameIds(got.items) = FoundIn(Target(p), raw.items)
                  /\ IsDict(raw) =>
                        /\ DOMAIN got.m = DOMAIN raw.m
                        /\ \A k \in DOMAIN raw.m :
                              ~Stored(Target(p), raw.m[k]) => got.m[k] = None

\* A list lost its dangling identifiers and a map kept the key of one.
C4_Witness ==
    /\ Called /\ OnlyReferences /\ result.exc = "none"
    /\ \E p \in TopReferences : \E i, j \in DOMAIN Sources :
          /\ IsList(RawAt(p, i))
          /\ Len(GotAt(p, i).items) = 1
          /\ Len(RawAt(p, i).items) = 3
          /\ IsDict(RawAt(p, j))
          /\ \E k \in DOMAIN GotAt(p, j).m : GotAt(p, j).m[k] = None

\* Whether `w` is the sub-frame of class `sub` over the mapping `r`, showing
\* the values of r's fields (a field the nested projection resolves aside).
Wraps(w, r, d) ==
    /\ w.t = "sub" /\ w.cls = SubClass(d)
    /\ IF IsDict(r)
       THEN /\ IsDict(w.doc)
            /\ DOMAIN w.doc.m = DOMAIN r.m
            /\ \A f \in DOMAIN r.m : f \in DOMAIN d.m \/ Get(w, f) = r.m[f]
       ELSE w.doc = r

WrapsAll(w, rs, d) ==
    /\ IsList(w)
    /\ Len(w.items) = Len(rs)
    /\ \A j \in DOMAIN rs : Wraps(w.items[j], rs[j], d)

IsScalar(v) == v # None /\ ~IsDict(v) /\ ~IsList(v)

\* C5: after a call that returns, every document holds at each embedding
\* path of the query a value of the stored shape: one sub-frame for one
\* mapping; a list of as many sub-frames, in order, for a list of mappings;
\* with the map variant a map of the same keys whose values are sub-frames,
\* or lists of sub-frames for list-valued entries.  Each sub-frame shows the
\* field values of the mapping it wraps.  A directive without a nested
\* projection over mappings and lists always returns.
C5_ShapeKept ==
    /\ Returned =>
          \A p \in TopSubs : \A i \in DOMAIN Sources :
              LET raw == RawAt(p, i)
                  got == GotAt(p, i)
                  d == Effective.m[p]
              IN  IF raw = None THEN got = None
                  ELSE IF IsList(raw)
                  THEN WrapsAll(got, SelectSeq(raw.items, IsDict), d)
                  ELSE IF ExpectMap(d)
                  THEN /\ IsDict(got)
                       /\ DOMAIN got.m = DOMAIN raw.m
                       /\ \A k \in DOMAIN raw.m :
                             IF IsList(raw.m[k])
                             THEN WrapsAll(got.m[k], SelectSeq(raw.m[k].items, IsDict), d)
                             ELSE Wraps(got.m[k], raw.m[k], d)
                  ELSE Wraps(got, raw, d)
    /\ (/\ Called /\ TopReferences = {} /\ TopSubs # {}
        /\ \A p \in TopSubs :
              /\ Falsy(SubNested(Effective.m[p]))
              /\ \A i \in DOMAIN Sources : ~IsScalar(RawAt(p, i)))
       => result.exc = "none"

\* The three shapes in one result: one mapping, a list of three, and (with
\* the map variant) a map of two entries, one of them a list.
C5_Witness ==
    /\ Returned /\ call.op = "many"
    /\ \E p \in TopSubs :
          /\ ExpectMap(Effective.m[p])
          /\ \E i \in DOMAIN Sources :
                /\ IsDict(RawAt(p, i))
                /\ \E k \in DOMAIN RawAt(p, i).m :
                      /\ IsList(RawAt(p, i).m[k])
                      /\ IsList(GotAt(p, i).m[k])
                      /\ Len(GotAt(p, i).m[k].items) = 1
          /\ \E i \in DOMAIN Sources :
                IsList(RawAt(p, i)) /\ Len(GotAt(p, i).items) = 3

\* The lairs a dragon query fetches through `lair`.
FetchedLairs ==
    {l \in Range(store["Lair"]) : Get(l, "_id") \in SourceIds("lair")}

\* C6: a call with an embedding directive over a document whose value at the
\* path is neither None, a mapping nor a list raises the sub-frame type
\* error, also when the document is one fetched through a reference; a
\* document whose value is absent or None is returned as it is stored, and
\* when every value is absent or None the call returns.
C6_ScalarIsTypeError ==
    /\ (/\ Called /\ TopReferences = {}
        /\ \E p \in TopSubs : \E i \in DOMAIN Sources : IsScalar(RawAt(p, i)))
       => result.exc = SubFrameTypeError
    /\ (/\ Called /\ call.cls = "ComplexDragon"
        /\ Effective = DefaultProjection("ComplexDragon")
        /\ \E l \in FetchedLairs : IsScalar(Get(l, "inventory")))
       => result.exc = SubFrameTypeError
    /\ (/\ Called /\ TopReferences = {} /\ TopSubs # {}
        /\ \A p \in TopSubs : \A i \in DOMAIN Sources : RawAt(p, i) = None)
       => result.exc = "none"
    /\ Returned =>
          \A p \in TopSubs : \A i \in DOMAIN Sources :
              RawAt(p, i) = None => result.docs[i].doc = Sources[i]

\* The type error of a lair reached the caller of a dragon query.
C6_Witness ==
    /\ Called /\ call.cls = "ComplexDragon"
    /\ call.projection = NotPassed
    /\ \E l \in FetchedLairs : IsScalar(Get(l, "inventory"))
    /\ result.exc = SubFrameTypeError

Queried == call.op \in {"many", "one", "reload"}

Named(projection) == IF IsDict(projection) THEN DOMAIN projection.m ELSE {}

\* The plain values of the projection are all inclusions, and there is one.
InclusionMode(projection) ==
    /\ IsDict(projection)
    /\ PlainKeys(projection.m) # {}
    /\ \A k \in PlainKeys(projection.m) : ~Falsy(projection.m[k])
    /\ \A k \in MappingKeys(projection.m) : IsTagged(projection.m[k])

\* C12, as claimed: after a call with an explicit projection every field the
\* projection does not name reads None on the returned objects.
C12_AsClaimed ==
    (Queried /\ result.exc = "none" /\ call.projection # NotPassed) =>
        \A i \in DOMAIN result.docs :
            \A f \in Fields(call.cls) \ ({"_id"} \cup Named(call.projection)) :
                Get(result.docs[i], f) = None

\* C12 (amended): a call without a projection argument fetches with the
\* compiled default projection and resolves its directives; a call with an
\* explicit projection fetches with that projection compiled and makes only
\* the fetches of its own directives, so a field the default projection
\* would dereference holds the stored identifier or nothing; and when the
\* explicit projection names fields for inclusion, every other field (the
\* _id aside) reads None.
C12_DefaultOrExplicit ==
    Queried =>
        /\ Head(Fetches).projection =
             FlattenProjection(call.cls,
                 IF call.projection = NotPassed
                 THEN DefaultProjection(call.cls) ELSE call.projection).flat
        /\ result.exc = "none" =>
              \A i \in DOMAIN result.docs :
                  /\ (call.projection = NotPassed /\ call.cls = "ComplexDragon")
                        => \/ RawAt("lair", i) = None /\ GotAt("lair", i) = None
                           \/ /\ RawAt("lair", i) # None
                              /\ TypedAs(GotAt("lair", i),
                                         DefaultProjection("ComplexDragon").m["lair"])
                  /\ (call.projection # NotPassed /\ call.cls = "ComplexDragon"
                      /\ "lair" \notin Named(call.projection))
                        => /\ GotAt("lair", i) \in {None, RawAt("lair", i)}
                           /\ Len(Fetches) = 1
                  /\ (call.projection # NotPassed /\ InclusionMode(call.projection))
                        => \A f \in Fields(call.cls) \ ({"_id"} \cup Named(call.projection)) :
                              Get(result.docs[i], f) = None

\* A dragon reloaded with {'name': True} kept its name and lost its lair; the
\* stored dragon has one.
C12_Witness ==
    /\ call.op = "reload" /\ result.exc = "none"
    /\ call.projection = PyDict(Map1("name", True))
    /\ RawAt("lair", 1) # None
    /\ GotAt("lair", 1) = None
    /\ GotAt("name", 1) = RawAt("name", 1)

----------------------------------------------------------------------------
(* Claims about the compiler, checked under SpecCompile.                    *)

Compiled == call.op = "flatten" /\ result # NoResult

\* The field entries of a structured projection: its keys but the stray tags.
FieldEntries(projection) ==
    {k \in DOMAIN projection.m :
        ~(k \in {"$ref", "$sub", "$sub."} /\ ~IsDict(projection.m[k]))}

IsDirective(v) ==
    IsDict(v) /\ ({"$ref", "$sub", "$sub."} \cap DOMAIN v.m) # {}

OperatorsOf(v) == {k \in DOMAIN v.m : StartsWithDollar(k)} \ {"$ref", "$sub", "$sub."}

OnlyDirectives(projection) ==
    /\ IsDict(projection)
    /\ FieldEntries(projection) # {}
    /\ \A k \in FieldEntries(projection) : IsDirective(projection.m[k])

HasPlainFlag(projection) ==
    /\ IsDict(projection)
    /\ \E k \in FieldEntries(projection) : ~IsDict(projection.m[k])

AllDeclaredTrue(cls, flat) ==
    /\ DOMAIN flat = Fields(cls)
    /\ \A f \in Fields(cls) : flat[f] = PyBool(TRUE)

TablesMatch(projection, res) ==
    /\ DOMAIN res.references =
         {k \in FieldEntries(projection) :
             IsDict(projection.m[k]) /\ "$ref" \in DOMAIN projection.m[k].m}
    /\ DOMAIN res.subs =
         {k \in FieldEntries(projection) :
             /\ IsDict(projection.m[k])
             /\ "$ref" \notin DOMAIN projection.m[k].m
             /\ ({"$sub", "$sub."} \cap DOMAIN projection.m[k].m) # {}}

\* C7: compiling an absent (None) or empty projection yields every declared
\* field mapped to true, an empty reference table and an empty embedding
\* table, for every class.
C7_EmptyProjectionIsFull ==
    (Compiled /\ (call.projection = None \/ call.projection = PyDict(EmptyMap)))
        => /\ AllDeclaredTrue(call.cls, result.flat)
           /\ DOMAIN result.references = {}
           /\ DOMAIN result.subs = {}

C7_Witness ==
    /\ Compiled
    /\ call.projection = PyDict(EmptyMap)
    /\ call.cls = "Lair"
    /\ DOMAIN result.flat = {"_id", "name", "inventory"}


DirectiveEntries(projection) ==
    {k \in FieldEntries(projection) : IsDirective(projection.m[k])}

CarriesOperators(projection) ==
    \E k \in FieldEntries(projection) :
        IsDict(projection.m[k]) /\ OperatorsOf(projection.m[k]) # {}

\* C8 as claimed: a projection of directives only (with or without sibling
\* operator keys) compiles to every declared field mapped to true, and the
\* tables hold exactly the $ref fields and the $sub / $sub. fields.
C8_AsClaimed ==
    (Compiled /\ OnlyDirectives(call.projection))
        => /\ AllDeclaredTrue(call.cls, result.flat)
           /\ TablesMatch(call.projection, result)

\* C8 (amended): a projection of directives only, none of which carries a
\* sibling operator key, compiles to every declared field mapped to true; when
\* a directive carries operator keys the flat projection holds the directive
\* fields only.  In both cases the tables hold exactly the $ref fields and the
\* $sub / $sub. fields.
C8_DirectivesOnly ==
    (Compiled /\ OnlyDirectives(call.projection))
        => /\ TablesMatch(call.projection, result)
           /\ ~CarriesOperators(call.projection)
                => AllDeclaredTrue(call.cls, result.flat)
           /\ CarriesOperators(call.projection)
                => DOMAIN result.flat = FieldEntries(call.projection)

C8_Witness ==
    /\ Compiled
    /\ call.cls = "ComplexDragon"
    /\ call.projection =
         PyDict(Map2("lair", RefLair, "inventory.keeper", SubInventory))
    /\ DOMAIN result.flat = Fields("ComplexDragon")
    /\ DOMAIN result.references = {"lair"}
    /\ DOMAIN result.subs = {"inventory.keeper"}

\* C9: with at least one plain field flag the flat projection has exactly the
\* field names named in the structured projection: plain fields with their
\* given value, directive fields included, no other declared field added.
C9_ExplicitMode ==
    (Compiled /\ HasPlainFlag(call.projection))
        => /\ DOMAIN result.flat = FieldEntries(call.projection)
           /\ \A k \in FieldEntries(call.projection) :
                ~IsDict(call.projection.m[k])
                    => result.flat[k] = call.projection.m[k]

C9_Witness ==
    /\ Compiled
    /\ call.cls = "ComplexDragon"
    /\ call.projection = PyDict(Map2("name", True, "lair", RefLair))
    /\ DOMAIN result.flat = {"name", "lair"}
    /\ DOMAIN result.references = {"lair"}

ExplicitMode(projection) ==
    HasPlainFlag(projection) \/ CarriesOperators(projection)

OperatorSlot(v) == PyDict([o \in OperatorsOf(v) |-> v.m[o]])

\* C10 as claimed: a directive's flat slot is the mapping of its sibling
\* operator keys, or true when it has none; the field is in a table.
C10_AsClaimed ==
    Compiled /\ IsDict(call.projection)
        => \A k \in DirectiveEntries(call.projection) :
             LET v == call.projection.m[k] IN
             /\ k \in DOMAIN result.references \cup DOMAIN result.subs
             /\ k \in DOMAIN result.flat
             /\ result.flat[k] =
                  IF OperatorsOf(v) # {} THEN OperatorSlot(v) ELSE PyBool(TRUE)

\* C10 (amended): a directive's flat slot is the mapping of exactly its
\* sibling operator keys; without any, the slot is true when the field is
\* declared or the projection is in explicit mode, and otherwise (directives
\* only, an undeclared key such as a dotted path) the field has no slot.  The
\* field is recorded in the reference or embedding table in every case.
C10_OperatorsKept ==
    Compiled /\ IsDict(call.projection)
        => \A k \in DirectiveEntries(call.projection) :
             LET v == call.projection.m[k] IN
             /\ k \in DOMAIN result.references \cup DOMAIN result.subs
             /\ OperatorsOf(v) # {}
                  => k \in DOMAIN result.flat /\ result.flat[k] = OperatorSlot(v)
             /\ OperatorsOf(v) = {}
                  => IF ExplicitMode(call.projection) \/ k \in Fields(call.cls)
                     THEN k \in DOMAIN result.flat /\ result.flat[k] = PyBool(TRUE)
                     ELSE k \notin DOMAIN result.flat

C10_Witness ==
    /\ Compiled
    /\ call.projection =
         PyDict(Map2("lair",
                     PyDict(Map2("$ref", PyClass("Lair"), "$slice", SliceArg)),
                     "inventory.keeper", SubInventory))
    /\ result.flat["lair"] = PyDict(Map1("$slice", SliceArg))
    /\ result.flat["inventory.keeper"] = PyBool(TRUE)
    /\ "lair" \in DOMAIN result.references
    /\ "inventory.keeper" \in DOMAIN result.subs

----------------------------------------------------------------------------
(* The value helpers on their own: _BaseFrame._path_to_value, to_refs,      *)
(* _BaseFrame.to_json_type and _BaseFrame._remove_keys, each applied once   *)
(* to an argument drawn from the sets below.                                *)

PyTuple(s) == [t |-> "tuple", items |-> s]
PyDate(y, m, d) == [t |-> "date", y |-> y, mo |-> m, d |-> d]
PyDatetime(y, m, d, h, mi, s) ==
    [t |-> "datetime", y |-> y, mo |-> m, d |-> d, h |-> h, mi |-> mi, s |-> s]

Burt == PyStr("Burt")
Cave == PyStr("Cave")
Hoard == PyDict(Map2("gold", PyInt(1000), "skulls", PyInt(100)))

\* What a document can hold under `inventory`.
InventoryValues ==
    {None, PyInt(5), Hoard, PyList(<<Hoard>>), NewSubFrame("Inventory", Hoard)}

LairDicts ==
    {PyDict(Map1("name", Cave))}
    \cup {PyDict(Map2("name", Cave, "inventory", i)) : i \in InventoryValues}

\* What a document can hold under `lair`.
LairValues ==
    {None, PyInt(5), Cave, PyList(<<PyDict(Map1("name", Cave))>>)}
    \cup LairDicts
    \cup {NewFrame("Lair", d) : d \in LairDicts}

DragonDicts ==
    {PyDict(Map1("name", Burt))}
    \cup {PyDict(Map2("name", Burt, "lair", l)) : l \in LairValues}

PathRoots ==
    DragonDicts
    \cup {NewFrame("ComplexDragon", d) : d \in DragonDicts}
    \cup {PyInt(5), PyList(<<PyDict(Map1("name", Burt))>>)}

Paths == {"name", "lair.name", "lair.inventory.gold"}

PathCalls ==
    {[op |-> "path_to_value", path |-> p, root |-> r] :
        p \in Paths, r \in PathRoots}

\* cls._path_to_value(path, parent_dict)
PathValue ==
    /\ call.op = "path_to_value"
    /\ result = NoResult
    /\ result' = PathToValue(call.path, call.root)
    /\ UNCHANGED <<store, call, projections, held, cache, threads>>


\* A bug a comprehension could have been written as: the converted items are
\* stored back into the container they were read from.
BuiltInPlace(v) == [object |-> "same", value |-> v]

\* [f(v) for v in value] and {k: f(v) for k, v in value.items()} build a new
\* container; the one iterated keeps its items.
Built(v) == [object |-> "new", value |-> v]

\* The argument object after a call that built `out` from its items.
ArgumentAfter(arg, out) ==
    IF Built(out).object = "new" THEN arg
    ELSE IF arg.t \in {"list", "dict"} THEN out
    ELSE IF IsBaseFrame(arg) /\ arg.doc.t \in {"list", "dict"}
         THEN [arg EXCEPT !.doc = out]
    ELSE arg

\* frame._id: __getattr__ reads the document with a default of None.
FrameId(frame) == Get(frame, "_id")

\* queries.to_refs
RECURSIVE ToRefs(_)
ToRefs(value) ==
    IF value.t = "frame" THEN FrameId(value)
    ELSE IF value.t = "sub" THEN ToRefs(value.doc)
    ELSE IF value.t \in {"list", "tuple"}
         THEN Built(PyList([i \in DOMAIN value.items |-> ToRefs(value.items[i])])).value
    ELSE IF value.t = "dict"
         THEN Built(PyDict([k \in DOMAIN value.m |-> ToRefs(value.m[k])])).value
    ELSE value

\* A call of a helper that takes one value: what it returns, and the
\* argument object as the call leaves it.
Converted(arg, out) == [exc |-> "none", val |-> out, arg |-> ArgumentAfter(arg, out)]

Keeper == NewFrame("Dragon", PyDict(Map2("_id", ObjectId(1), "name", Burt)))
Unsaved == NewFrame("Dragon", PyDict(Map1("name", Burt)))
Guarded == NewSubFrame("Inventory", PyDict(Map2("gold", PyInt(1000), "keeper", Keeper)))
Den ==
    NewFrame("Lair",
        PyDict(Map2("_id", ObjectId(10), "inventory", NewSubFrame("Inventory", Hoard))))

RefAtoms == {PyInt(1), ObjectId(10), Keeper, Unsaved, Guarded, Den}

RefContainers ==
    {PyList(<<a, b>>) : a \in RefAtoms, b \in {Keeper, Guarded}}
    \cup {PyTuple(<<a, b>>) : a \in RefAtoms, b \in {Keeper, Guarded}}
    \cup {PyDict(Map2("a", a, "b", b)) : a \in RefAtoms, b \in {Keeper, Guarded}}
    \cup {PyList(<<>>), PyTuple(<<>>), PyDict(EmptyMap)}

RefValues ==
    RefAtoms
    \cup RefContainers
    \cup {PyDict(Map1("lair", c)) : c \in RefContainers}
    \cup {PyList(<<c>>) : c \in RefContainers}
    \cup {NewSubFrame("Inventory", PyDict(Map1("keeper", c))) : c \in RefContainers}

RefCalls == {[op |-> "to_refs", value |-> v] : v \in RefValues}

\* to_refs(value)
Refs ==
    /\ call.op = "to_refs"
    /\ result = NoResult
    /\ result' = Converted(call.value, ToRefs(call.value))
    /\ UNCHANGED <<store, call, projections, held, cache, threads>>


\* _private_fields of the fixture classes (ComplexDragon inherits Dragon's),
\* as the sequence `for path in paths` visits.
PrivateFields(cls) ==
    CASE cls \in {"Dragon", "ComplexDragon"} -> <<"breed">>
      [] cls = "Inventory" -> <<"gold">>
      [] OTHER -> <<>>

PopTypeError == "TypeError: pop"
NotIterableTypeError == "TypeError: argument is not iterable"

\* `key in text` for two strings.
IsSubstring(key, text) ==
    \E i \in 1..(Len(text) - Len(key) + 1) : SubSeq(text, i, i + Len(key) - 1) = key

\* if keys[-1] in child_dict: child_dict.pop(keys[-1])
PopKey(child_dict, key) ==
    CASE child_dict = None -> Return(child_dict)
      [] IsDict(child_dict) -> Return(PyDict(Without(child_dict.m, key)))
      [] child_dict.t \in {"list", "tuple"} ->
            IF PyStr(key) \in Range(child_dict.items)
            THEN Raise(PopTypeError) ELSE Return(child_dict)
      [] child_dict.t = "str" ->
            IF IsSubstring(key, child_dict.s)
            THEN Raise(AttributeError) ELSE Return(child_dict)
      [] HasGet(child_dict) ->
            IF key \in DOMAIN child_dict.doc.m
            THEN Raise(AttributeError) ELSE Return(child_dict)
      [] OTHER -> Raise(NotIterableTypeError)

\* The container with the child under `key` as the removal left it.
WithChild(child_dict, key, inner) ==
    IF inner.exc # "none" THEN inner
    ELSE IF IsDict(child_dict) THEN Return(PyDict(Put(child_dict.m, key, inner.val)))
    ELSE Return([child_dict EXCEPT !.doc = PyDict(Put(child_dict.doc.m, key, inner.val))])

\* One path of _remove_keys: traverse with .get, stop at None, pop the tip.
RECURSIVE RemoveAt(_, _)
RemoveAt(child_dict, keys) ==
    IF Len(keys) = 1 THEN PopKey(child_dict, keys[1])
    ELSE IF ~HasGet(child_dict) THEN Raise(AttributeError)
    ELSE IF Get(child_dict, Head(keys)) = None THEN Return(child_dict)
    ELSE WithChild(child_dict, Head(keys),
                   RemoveAt(Get(child_dict, Head(keys)), Tail(keys)))

\* _BaseFrame._remove_keys
RECURSIVE RemoveKeys(_, _)
RemoveKeys(parent_dict, paths) ==
    IF paths = <<>> THEN Return(parent_dict)
    ELSE LET first == RemoveAt(parent_dict, PathToKeys(Head(paths)))
         IN  IF first.exc # "none" THEN first
             ELSE RemoveKeys(first.val, Tail(paths))

Pad2(n) == IF n < 10 THEN "0" \o ToString(n) ELSE ToString(n)

\* str(date): YYYY-MM-DD
DateStr(v) == ToString(v.y) \o "-" \o Pad2(v.mo) \o "-" \o Pad2(v.d)

\* value.strftime('%Y-%m-%d %H:%M:%S')
DatetimeStr(v) == DateStr(v) \o " " \o Pad2(v.h) \o ":" \o Pad2(v.mi) \o ":" \o Pad2(v.s)

HexDigit(n) == SubSeq("0123456789abcdef", n + 1, n + 1)

\* str(ObjectId): 24 hexadecimal digits.
ObjectIdStr(v) ==
    "0000000000000000000000" \o HexDigit((v.id \div 16) % 16) \o HexDigit(v.id % 16)

\* The outcomes of a comprehension's items: the first raise, or the items.
GatheredList(outs) ==
    IF \E i \in DOMAIN outs : outs[i].exc # "none"
    THEN outs[CHOOSE i \in DOMAIN outs :
                /\ outs[i].exc # "none"
                /\ \A j \in DOMAIN outs : outs[j].exc # "none" => i <= j]
    ELSE Return(Built(PyList([i \in DOMAIN outs |-> outs[i].val])).value)

GatheredDict(outs) ==
    IF \E k \in DOMAIN outs : outs[k].exc # "none"
    THEN outs[CHOOSE k \in DOMAIN outs : outs[k].exc # "none"]
    ELSE Return(Built(PyDict([k \in DOMAIN outs |-> outs[k].val])).value)

\* A bug to_json_type could have: the private fields are left in.
PrivateKept(cls, document_dict) == document_dict

\* self._remove_keys(document_dict, self._private_fields); return document_dict
PrivateRemoved(cls, document_dict) ==
    IF document_dict.exc # "none" THEN document_dict
    ELSE RemoveKeys(document_dict.val, PrivateFields(cls))

\* _BaseFrame._json_safe, and _BaseFrame.to_json_type for a frame value.
RECURSIVE JsonSafe(_)
JsonSafe(value) ==
    CASE value.t = "date" -> Return(PyStr(DateStr(value)))
      [] value.t = "datetime" -> Return(PyStr(DatetimeStr(value)))
      [] value.t = "oid" -> Return(PyStr(ObjectIdStr(value)))
      [] IsBaseFrame(value) -> PrivateRemoved(value.cls, JsonSafe(value.doc))
      [] value.t \in {"list", "tuple"} ->
            GatheredList([i \in DOMAIN value.items |-> JsonSafe(value.items[i])])
      [] IsDict(value) ->
            GatheredDict([k \in DOMAIN value.m |-> JsonSafe(value.m[k])])
      [] OTHER -> Return(value)

\* _BaseFrame.to_json_type
ToJsonType(frame) == PrivateRemoved(frame.cls, JsonSafe(frame.doc))

\* A call on an object: the outcome, and the object as the call leaves it.
ConvertedObject(arg, out) ==
    [exc |-> out.exc, val |-> out.val,
     arg |-> IF out.exc = "none" THEN ArgumentAfter(arg, out.val) ELSE arg]

Dob == PyDatetime(1979, 6, 11, 0, 0, 0)
Hatched == PyDate(1979, 6, 11)
ColdDrake == PyStr("Cold-drake")
Stash == NewSubFrame("Inventory", Hoard)

JsonInventories ==
    {Hoard, Stash, PyList(<<Stash, Hoard>>), PyDict(Map2("a", Stash, "b", Stash))}

JsonLairs ==
    {NewFrame("Lair", PyDict(Map3("_id", ObjectId(10), "name", Cave, "inventory", i))) :
        i \in JsonInventories}

JsonExtras ==
    {PyList(<<PyStr("irritable"), PyStr("narcissistic")>>),
     PyTuple(<<Keeper, Hatched>>),
     PyDict(Map2("a", Keeper, "b", Stash))}

\* The document with the optional entries that are present.
WithOptional(m, key, values) == {m} \cup {Put(m, key, v) : v \in values}

JsonDragonMaps ==
    LET base == Map3("_id", ObjectId(1), "name", Burt, "dob", Dob)
        bred == WithOptional(base, "breed", {ColdDrake})
        housed == UNION {WithOptional(m, "lair", {None, ObjectId(10)} \cup JsonLairs) :
                            m \in bred}
    IN  UNION {WithOptional(m, "traits", JsonExtras) : m \in housed}

JsonFrames ==
    {NewFrame("ComplexDragon", PyDict(m)) : m \in JsonDragonMaps}
    \cup JsonLairs
    \cup {Stash, Guarded, Keeper}

JsonCalls == {[op |-> "to_json_type", frame |-> f] : f \in JsonFrames}

\* frame.to_json_type()
JsonType ==
    /\ call.op = "to_json_type"
    /\ result = NoResult
    /\ result' = ConvertedObject(call.frame, ToJsonType(call.frame))
    /\ UNCHANGED <<store, call, projections, held, cache, threads>>

RemovePaths ==
    {<<"name">>, <<"breed">>, <<"lair">>, <<"lair.name">>, <<"lair.inventory.gold">>,
     <<"lair.name", "name">>, <<"lair.inventory.gold", "lair.name">>}

RemoveCalls ==
    {[op |-> "remove_keys", parent_dict |-> d, paths |-> ps] :
        d \in DragonDicts \cup {None}, ps \in RemovePaths}

\* cls._remove_keys(parent_dict, paths)
Remove ==
    /\ call.op = "remove_keys"
    /\ result = NoResult
    /\ result' = RemoveKeys(call.parent_dict, call.paths)
    /\ UNCHANGED <<store, call, projections, held, cache, threads>>

InitValues ==
    /\ store = EmptyStore
    /\ call \in PathCalls \cup RefCalls \cup JsonCalls \cup RemoveCalls
    /\ result = NoResult
    /\ projections = DeclaredProjections
    /\ held = NoObjects
    /\ cache = EmptyMap /\ threads = NoThreads

NextValues == PathValue \/ Refs \/ JsonType \/ Remove

SpecValues == InitValues /\ [][NextValues]_vars

----------------------------------------------------------------------------
(* Claims about the value helpers, checked under SpecValues.                *)

Applied(op) == call.op = op /\ result # NoResult

\* The walk as the contract words it: absent as soon as the value walked
\* into is not a mapping.
RECURSIVE AbsentOrValue(_, _)
AbsentOrValue(keys, v) ==
    IF ~HasGet(v) THEN None
    ELSE IF Len(keys) = 1 THEN Get(v, keys[1])
    ELSE AbsentOrValue(Tail(keys), Get(v, Head(keys)))

\* C13: _path_to_value never raises, for any path and any nested root; it
\* returns the value found at the path, and None whenever an intermediate
\* segment is missing or is a value that is not a mapping (a scalar, a list).
C13_AsClaimed ==
    Applied("path_to_value") /\ HasGet(call.root) =>
        /\ result.exc = "none"
        /\ result.val = AbsentOrValue(PathToKeys(call.path), call.root)


\* A Frame or SubFrame at any depth of lists, tuples and dictionary values.
RECURSIVE HoldsFrame(_)
HoldsFrame(v) ==
    \/ IsBaseFrame(v)
    \/ v.t \in {"list", "tuple"} /\ \E i \in DOMAIN v.items : HoldsFrame(v.items[i])
    \/ IsDict(v) /\ \E k \in DOMAIN v.m : HoldsFrame(v.m[k])

\* r is v with every Frame replaced by its _id and every SubFrame by the
\* references of its document; lists and tuples item by item (as lists),
\* dictionaries key by key.
RECURSIVE RefsOf(_, _)
RefsOf(v, r) ==
    CASE v.t = "frame" -> r = (IF "_id" \in DOMAIN v.doc.m THEN v.doc.m["_id"] ELSE None)
      [] v.t = "sub" -> RefsOf(v.doc, r)
      [] v.t \in {"list", "tuple"} ->
            /\ r.t = "list"
            /\ Len(r.items) = Len(v.items)
            /\ \A i \in DOMAIN v.items : RefsOf(v.items[i], r.items[i])
      [] IsDict(v) ->
            /\ r.t = "dict"
            /\ DOMAIN r.m = DOMAIN v.m
            /\ \A k \in DOMAIN v.m : RefsOf(v.m[k], r.m[k])
      [] OTHER -> r = v

\* C17: to_refs(v) replaces every Frame by its _id and every SubFrame by the
\* to_refs of its document, through lists, tuples and dictionary values with
\* the keys kept; the result holds no Frame or SubFrame at any depth, the
\* argument is left as it was, and to_refs of the result equals the result.
C17_ToRefs ==
    Applied("to_refs") =>
        /\ result.exc = "none"
        /\ RefsOf(call.value, result.val)
        /\ ~HoldsFrame(result.val)
        /\ result.arg = call.value
        /\ ToRefs(result.val) = result.val

\* A dictionary whose value is a tuple of a frame and a sub-frame holding a
\* frame came back as a dictionary of a list of an id and a plain mapping.
C17_Witness ==
    /\ Applied("to_refs")
    /\ call.value = PyDict(Map1("lair", PyTuple(<<Den, Guarded>>)))
    /\ result.val =
         PyDict(Map1("lair",
             PyList(<<ObjectId(10),
                      PyDict(Map2("gold", PyInt(1000), "keeper", ObjectId(1)))>>)))


\* The key path exists in v (whatever value it holds).
RECURSIVE PathPresent(_, _)
PathPresent(keys, v) ==
    /\ HasGet(v)
    /\ Head(keys) \in DOMAIN (IF IsDict(v) THEN v.m ELSE v.doc.m)
    /\ Len(keys) = 1 \/ PathPresent(Tail(keys), Get(v, Head(keys)))

\* Every value walked into along the keys is a dictionary, up to the first
\* key that is missing or holds None.
RECURSIVE MappingsAlong(_, _)
MappingsAlong(keys, v) ==
    /\ IsDict(v)
    /\ \/ Len(keys) = 1
       \/ Get(v, Head(keys)) = None
       \/ MappingsAlong(Tail(keys), Get(v, Head(keys)))

\* r is the JSON form of v: a Frame or SubFrame is the dictionary of its
\* document without its class's private fields, lists and tuples are lists
\* item by item, dictionaries key by key, identifiers and dates are strings.
RECURSIVE JsonOf(_, _)
JsonOf(v, r) ==
    CASE IsBaseFrame(v) ->
            /\ r.t = "dict"
            /\ DOMAIN r.m = DOMAIN v.doc.m \ Range(PrivateFields(v.cls))
            /\ \A k \in DOMAIN r.m : JsonOf(v.doc.m[k], r.m[k])
      [] v.t \in {"list", "tuple"} ->
            /\ r.t = "list"
            /\ Len(r.items) = Len(v.items)
            /\ \A i \in DOMAIN v.items : JsonOf(v.items[i], r.items[i])
      [] IsDict(v) ->
            /\ r.t = "dict"
            /\ DOMAIN r.m = DOMAIN v.m
            /\ \A k \in DOMAIN v.m : JsonOf(v.m[k], r.m[k])
      [] v.t \in {"oid", "date", "datetime"} -> r.t = "str"
      [] OTHER -> r = v

\* C16: to_json_type returns a dictionary of the frame's document without the
\* frame's private field paths, in which every nested Frame or SubFrame
\* (directly, in lists or in maps) is its own to_json_type result without
\* that class's private fields; the frame's document and the nested objects'
\* documents are left as they were.  _remove_keys, which does the removal,
\* leaves none of the paths it is given when it returns, and returns whenever
\* the values walked into are dictionaries, up to a missing key or a None.
C16_ToJsonType ==
    /\ Applied("to_json_type") =>
          /\ result.exc = "none"
          /\ JsonOf(call.frame, result.val)
          /\ \A i \in DOMAIN PrivateFields(call.frame.cls) :
                ~PathPresent(PathToKeys(PrivateFields(call.frame.cls)[i]), result.val)
          /\ ~HoldsFrame(result.val)
          /\ result.arg = call.frame
    /\ Applied("remove_keys") =>
          /\ result.exc = "none" =>
                \A i \in DOMAIN call.paths :
                    ~PathPresent(PathToKeys(call.paths[i]), result.val)
          /\ (\A i \in DOMAIN call.paths :
                MappingsAlong(PathToKeys(call.paths[i]), call.parent_dict))
                => result.exc = "none"

\* A dragon with a private breed, a lair frame whose inventory is a list of a
\* sub-frame and a plain mapping, and a tuple of a frame and a date.
C16_Witness ==
    /\ Applied("to_json_type")
    /\ call.frame.cls = "ComplexDragon"
    /\ "breed" \in DOMAIN call.frame.doc.m
    /\ "traits" \in DOMAIN call.frame.doc.m
    /\ call.frame.doc.m["traits"] = PyTuple(<<Keeper, Hatched>>)
    /\ "lair" \in DOMAIN call.frame.doc.m
    /\ call.frame.doc.m["lair"] =
         NewFrame("Lair", PyDict(Map3("_id", ObjectId(10), "name", Cave,
                                      "inventory", PyList(<<Stash, Hoard>>))))
    /\ result.val =
         PyDict([k \in {"_id", "name", "dob", "lair", "traits"} |->
            CASE k = "_id" -> PyStr("000000000000000000000001")
              [] k = "name" -> Burt
              [] k = "dob" -> PyStr("1979-06-11 00:00:00")
              [] k = "lair" ->
                    PyDict(Map3("_id", PyStr("00000000000000000000000a"),
                                "name", Cave,
                                "inventory",
                                    PyList(<<PyDict(Map1("skulls", PyInt(100))), Hoard>>)))
              [] k = "traits" ->
                    PyList(<<PyDict(Map2("_id", PyStr("000000000000000000000001"),
                                                "name", Burt)),
                             PyStr("1979-06-11")>>)])

----------------------------------------------------------------------------
(* Writing frames: insert, update, update_many, upsert and delete on the    *)
(* Lair collection.  `held` is the sequence of frames the caller holds in   *)
(* memory; `call` keeps the operation with the store and the frames as they *)
(* were before it, `result` its outcome.                                    *)

MaxIds == 2

AssertionError == "AssertionError"
DuplicateKeyError == "DuplicateKeyError"
WriteError == "WriteError"

\* The position in the collection of the document with the _id, or 0.
PositionOf(docs, id) ==
    IF \E i \in DOMAIN docs : Get(docs[i], "_id") = id
    THEN CHOOSE i \in DOMAIN docs :
            /\ Get(docs[i], "_id") = id
            /\ \A j \in DOMAIN docs : Get(docs[j], "_id") = id => i <= j
    ELSE 0

\* The store after a write, or the error the store answered with.
Accepted(db) == [exc |-> "none", store |-> db]
Rejected(e, db) == [exc |-> e, store |-> db]

\* The identifiers in use: those of the stored lairs and of the frames held.
UsedIds(db, frames) ==
    {Get(db["Lair"][i], "_id").id : i \in DOMAIN db["Lair"]}
    \cup {FrameId(frames[i]).id : i \in {j \in DOMAIN frames : FrameId(frames[j]) # None}}

\* ObjectId(): an identifier no document has.
FreshId(db, frames) ==
    LET used == UsedIds(db, frames) \cup {0}
    IN  ObjectId(IdStep("Lair") + CHOOSE n \in used : \A m \in used : m <= n)

\* collection.insert_one(document): the document gets a fresh _id unless it
\* carries one, and an _id already stored is refused.
InsertOne(db, cls, document, fresh) ==
    LET doc == IF "_id" \in DOMAIN document.m THEN document
               ELSE PyDict(Put(document.m, "_id", fresh))
    IN  IF PositionOf(db[cls], doc.m["_id"]) # 0 THEN Rejected(DuplicateKeyError, db)
        ELSE Accepted([db EXCEPT ![cls] = Append(@, doc)])

\* The frame after `self._id = ...inserted_id`.
WithId(frame, id) == [frame EXCEPT !.doc = PyDict(Put(frame.doc.m, "_id", id))]

\* One path of {'$set': ...}: embedded documents are created on the way, and
\* a value on the way that is not a document is an error.
RECURSIVE MongoSetAt(_, _, _)
MongoSetAt(document, keys, value) ==
    IF ~IsDict(document) THEN Raise(WriteError)
    ELSE IF Len(keys) = 1 THEN Return(PyDict(Put(document.m, keys[1], value)))
    ELSE LET child == IF Head(keys) \in DOMAIN document.m
                      THEN document.m[Head(keys)] ELSE PyDict(EmptyMap)
             inner == MongoSetAt(child, Tail(keys), value)
         IN  IF inner.exc # "none" THEN inner
             ELSE Return(PyDict(Put(document.m, Head(keys), inner.val)))

\* {'$set': changes} applied to one stored document, all or nothing.
RECURSIVE MongoSet(_, _)
MongoSet(document, changes) ==
    IF DOMAIN changes = {} THEN Return(document)
    ELSE LET k == CHOOSE x \in DOMAIN changes : TRUE
             first == MongoSetAt(document, PathToKeys(k), changes[k])
         IN  IF first.exc # "none" THEN first
             ELSE MongoSet(first.val, Without(changes, k))

\* A bug UpdateOne could have: the update is sent with upsert=True, and a
\* document that is missing is created from the filter and the changes.
UpdateOneOrInsert(db, cls, id, changes) ==
    LET i == PositionOf(db[cls], id)
    IN  IF i = 0
        THEN Accepted([db EXCEPT ![cls] = Append(@, PyDict(Put(changes, "_id", id)))])
        ELSE LET set == MongoSet(db[cls][i], changes)
             IN  IF set.exc # "none" THEN Rejected(set.exc, db)
                 ELSE Accepted([db EXCEPT ![cls][i] = set.val])

\* collection.update_one({'_id': id}, {'$set': changes}), and the legacy
\* collection.update with the same arguments: the first match is updated.
UpdateOne(db, cls, id, changes) ==
    LET i == PositionOf(db[cls], id)
    IN  IF i = 0 THEN Accepted(db)
        ELSE LET set == MongoSet(db[cls][i], changes)
             IN  IF set.exc # "none" THEN Rejected(set.exc, db)
                 ELSE Accepted([db EXCEPT ![cls][i] = set.val])

\* document = {}; for field in fields: document[field] =
\* self._path_to_value(field, self._document)
SelectedValues(frame, fields) ==
    [f \in Range(fields) |-> PathToValue(f, frame.doc)]

\* A bug UpdateDocument could have: the field list is ignored.
UpdateDocumentWhole(frame, fields) == Return(Without(ToRefs(frame.doc).m, "_id"))

\* The document update sends: the selected values (or the whole document),
\* through to_refs, without _id.
UpdateDocument(frame, fields) ==
    IF fields = <<>> THEN Return(Without(ToRefs(frame.doc).m, "_id"))
    ELSE LET values == SelectedValues(frame, fields)
         IN  IF \E f \in DOMAIN values : values[f].exc # "none"
             THEN Raise(AttributeError)
             ELSE Return(Without([f \in DOMAIN values |-> ToRefs(values[f].val)], "_id"))

\* Frame.insert: [exc, store, frame]
InsertFrame(frame, db, fresh) ==
    LET sent == InsertOne(db, frame.cls, ToRefs(frame.doc), fresh)
    IN  IF sent.exc # "none" THEN [exc |-> sent.exc, store |-> db, frame |-> frame]
        ELSE [exc |-> "none", store |-> sent.store,
              frame |-> WithId(frame, IF "_id" \in DOMAIN frame.doc.m
                                      THEN frame.doc.m["_id"] ELSE fresh)]

\* Frame.update
UpdateFrame(frame, fields, db) ==
    IF "_id" \notin DOMAIN frame.doc.m THEN Rejected(AssertionError, db)
    ELSE LET document == UpdateDocument(frame, fields)
         IN  IF document.exc # "none" THEN Rejected(document.exc, db)
             ELSE UpdateOne(db, frame.cls, FrameId(frame), document.val)

\* cls.count({'_id': self._id})
CountId(db, cls, id) == Cardinality({i \in DOMAIN db[cls] : Get(db[cls][i], "_id") = id})

\* A bug UpsertFrame could have: a frame with an _id is always updated.
UpsertWithoutCount(frame, fields, db, fresh) ==
    IF Falsy(FrameId(frame)) THEN InsertFrame(frame, db, fresh)
    ELSE LET updated == UpdateFrame(frame, fields, db)
         IN  [exc |-> updated.exc, store |-> updated.store, frame |-> frame]

\* Frame.upsert: [exc, store, frame]
UpsertFrame(frame, fields, db, fresh) ==
    IF Falsy(FrameId(frame)) \/ CountId(db, frame.cls, FrameId(frame)) = 0
    THEN InsertFrame(frame, db, fresh)
    ELSE LET updated == UpdateFrame(frame, fields, db)
         IN  [exc |-> updated.exc, store |-> updated.store, frame |-> frame]

\* for document in documents: ...update({'_id': _id}, {'$set': document}).
\* A refused write ends the loop with the earlier writes applied.
RECURSIVE UpdateEach(_, _, _)
UpdateEach(frames, fields, db) ==
    IF frames = <<>> THEN Accepted(db)
    ELSE LET first == UpdateOne(db, Head(frames).cls, FrameId(Head(frames)),
                                UpdateDocument(Head(frames), fields).val)
         IN  IF first.exc # "none" THEN first
             ELSE UpdateEach(Tail(frames), fields, first.store)

\* Frame.update_many: every document is prepared before the first write.
UpdateMany(frames, fields, db) ==
    IF \E i \in DOMAIN frames : "_id" \notin DOMAIN frames[i].doc.m
    THEN Rejected(AssertionError, db)
    ELSE IF \E i \in DOMAIN frames : UpdateDocument(frames[i], fields).exc # "none"
    THEN Rejected(AttributeError, db)
    ELSE UpdateEach(frames, fields, db)

\* collection.delete_one({'_id': id})
DeleteOne(db, cls, id) ==
    LET i == PositionOf(db[cls], id)
    IN  IF i = 0 THEN db
        ELSE [db EXCEPT ![cls] = SubSeq(@, 1, i - 1) \o SubSeq(@, i + 1, Len(@))]

\* Frame.delete
DeleteFrame(frame, db) ==
    IF "_id" \notin DOMAIN frame.doc.m THEN Rejected(AssertionError, db)
    ELSE Accepted(DeleteOne(db, frame.cls, FrameId(frame)))


Rich == NewSubFrame("Inventory", PyDict(Map2("gold", PyInt(2000), "skulls", PyInt(7))))

\* The frames the caller constructs, in this order:
\* Lair(name='Cave', inventory=Inventory(gold=1000, skulls=100)), Lair(name='Nest')
ConstructedFields ==
    <<Map2("name", Cave, "inventory", Stash), Map1("name", PyStr("Nest"))>>

\* The caller holds the frames it constructed.
MaxFrames == Len(ConstructedFields)

\* frame.name = ..., frame.inventory = ...
Assignments ==
    {<<"name", PyStr("Pit")>>, <<"inventory", Rich>>, <<"inventory", PyInt(5)>>}

\* The *fields arguments: none (every field), or the paths named.
FieldLists ==
    {<<>>, <<"name">>, <<"inventory.gold">>, <<"name", "inventory.gold">>,
     <<"inventory">>}

\* The operation with the frames it is called on (positions in `held`), and
\* the store and the frames as they were when it was called.
Operation(op, frames, fields) ==
    [op |-> op, frames |-> frames, fields |-> fields, store |-> store, held |-> held]

InitWrite ==
    /\ store = EmptyStore /\ call = NoCall /\ result = NoResult
    /\ projections = DeclaredProjections
    /\ held = NoObjects
    /\ cache = EmptyMap /\ threads = NoThreads

\* frame = Lair(**fields)
Construct(fields) ==
    /\ Idle
    /\ Len(held) < MaxFrames
    /\ fields = ConstructedFields[Len(held) + 1]
    /\ held' = Append(held, NewFrame("Lair", PyDict(fields)))
    /\ UNCHANGED <<store, call, result, projections, cache, threads>>

\* _BaseFrame.__setattr__ for a declared field
SetAttr(i, name, value) ==
    /\ Idle
    /\ i \in DOMAIN held
    /\ name \in Fields(held[i].cls)
    /\ held' = [held EXCEPT ![i].doc = PyDict(Put(@.m, name, value))]
    /\ UNCHANGED <<store, call, result, projections, cache, threads>>

\* The insert draws no fresh identifier: the document carries its _id.
NeedsNoId(frame) == "_id" \in DOMAIN frame.doc.m

\* held[i].insert()
InsertCall(i) ==
    /\ Idle
    /\ i \in DOMAIN held
    /\ NeedsNoId(held[i]) \/ FreshId(store, held).id <= MaxIds * IdStep("Lair")
    /\ LET r == InsertFrame(held[i], store, FreshId(store, held))
       IN  /\ store' = r.store
           /\ held' = [held EXCEPT ![i] = r.frame]
           /\ result' = [exc |-> r.exc]
    /\ call' = Operation("insert", <<i>>, <<>>)
    /\ UNCHANGED <<projections, cache, threads>>

\* held[i].update(*fields)
UpdateCall(i, fields) ==
    /\ Idle
    /\ i \in DOMAIN held
    /\ LET r == UpdateFrame(held[i], fields, store)
       IN  /\ store' = r.store
           /\ result' = [exc |-> r.exc]
    /\ call' = Operation("update", <<i>>, fields)
    /\ UNCHANGED <<projections, held, cache, threads>>

\* Lair.update_many([held[i] for i in frames], *fields)
UpdateManyCall(frames, fields) ==
    /\ Idle
    /\ Range(frames) \subseteq DOMAIN held
    /\ LET r == UpdateMany([n \in DOMAIN frames |-> held[frames[n]]], fields, store)
       IN  /\ store' = r.store
           /\ result' = [exc |-> r.exc]
    /\ call' = Operation("update_many", frames, fields)
    /\ UNCHANGED <<projections, held, cache, threads>>

\* held[i].upsert(*fields)
UpsertCall(i, fields) ==
    /\ Idle
    /\ i \in DOMAIN held
    /\ NeedsNoId(held[i]) \/ FreshId(store, held).id <= MaxIds * IdStep("Lair")
    /\ LET r == UpsertFrame(held[i], fields, store, FreshId(store, held))
       IN  /\ store' = r.store
           /\ held' = [held EXCEPT ![i] = r.frame]
           /\ result' = [exc |-> r.exc]
    /\ call' = Operation("upsert", <<i>>, fields)
    /\ UNCHANGED <<projections, cache, threads>>

\* held[i].delete()
DeleteCall(i) ==
    /\ Idle
    /\ i \in DOMAIN held
    /\ LET r == DeleteFrame(held[i], store)
       IN  /\ store' = r.store
           /\ result' = [exc |-> r.exc]
    /\ call' = Operation("delete", <<i>>, <<>>)
    /\ UNCHANGED <<projections, held, cache, threads>>

\* The lists of frames update_many is called with.
FrameLists == {<<1, 2>>, <<2, 1>>}

NextWrite ==
    \/ \E fields \in Range(ConstructedFields) : Construct(fields)
    \/ \E i \in 1..MaxFrames : \E a \in Assignments : SetAttr(i, a[1], a[2])
    \/ \E i \in 1..MaxFrames : InsertCall(i)
    \/ \E i \in 1..MaxFrames : \E fields \in FieldLists : UpdateCall(i, fields)
    \/ \E frames \in FrameLists : \E fields \in FieldLists : UpdateManyCall(frames, fields)
    \/ \E i \in 1..MaxFrames : \E fields \in FieldLists : UpsertCall(i, fields)
    \/ \E i \in 1..MaxFrames : DeleteCall(i)
    \/ Finish

SpecWrite == InitWrite /\ [][NextWrite]_vars

----------------------------------------------------------------------------
(* Claims about writes, checked under SpecWrite.                            *)

Before == call.store["Lair"]
After == store["Lair"]

\* The frames the call was made on, as they were when it was made.
FramesCalled == [n \in DOMAIN call.frames |-> call.held[call.frames[n]]]
AddressedIds == {FrameId(FramesCalled[n]) : n \in DOMAIN FramesCalled}
FrameWithId(id) ==
    FramesCalled[CHOOSE n \in DOMAIN FramesCalled : FrameId(FramesCalled[n]) = id]

\* The first segments of the named paths.
RootsOf(fields) == {PathToKeys(fields[n])[1] : n \in DOMAIN fields}

\* The stored value at a path of at most two segments.
StoredAt(document, path) ==
    AbsentOrValue(PathToKeys(path), document)

\* Nothing but the named paths differs between the two stored documents.
OnlyNamedDiffer(old, new, fields) ==
    /\ \A k \in DOMAIN old.m \ RootsOf(fields) :
          k \in DOMAIN new.m /\ new.m[k] = old.m[k]
    /\ DOMAIN new.m \subseteq DOMAIN old.m \cup RootsOf(fields)
    /\ \A n \in DOMAIN fields :
          LET keys == PathToKeys(fields[n])
          IN  Len(keys) = 2 /\ keys[1] \in DOMAIN old.m /\ IsDict(old.m[keys[1]])
              /\ (\A m \in DOMAIN fields : fields[m] # keys[1])
              => \A j \in DOMAIN old.m[keys[1]].m \ {keys[2]} :
                    /\ IsDict(new.m[keys[1]])
                    /\ j \in DOMAIN new.m[keys[1]].m
                    /\ new.m[keys[1]].m[j] = old.m[keys[1]].m[j]

\* The named paths of the stored document hold the frame's values.
NamedWritten(frame, new, fields) ==
    \A n \in DOMAIN fields :
        fields[n] # "_id" =>
            StoredAt(new, fields[n]) = ToRefs(AbsentOrValue(PathToKeys(fields[n]), frame.doc))

\* Every field of the frame but _id is stored; what the frame does not hold
\* is left as it was.
AllWritten(frame, old, new) ==
    /\ \A k \in DOMAIN frame.doc.m \ {"_id"} :
          k \in DOMAIN new.m /\ new.m[k] = ToRefs(frame.doc.m[k])
    /\ \A k \in DOMAIN old.m \ (DOMAIN frame.doc.m \ {"_id"}) :
          k \in DOMAIN new.m /\ new.m[k] = old.m[k]
    /\ DOMAIN new.m \subseteq DOMAIN old.m \cup DOMAIN frame.doc.m

\* C14: a selective update (update(*fields), update_many(documents, *fields))
\* writes only the values at the named field paths, dotted paths included,
\* of the addressed documents; every other stored field of those documents
\* and every other document is left unchanged even when the frame in memory
\* holds different values.  An update with no field list writes all fields
\* of the frame except _id.
C14_SelectiveUpdate ==
    call.op \in {"update", "update_many"} =>
        /\ held = call.held
        /\ Len(After) = Len(Before)
        /\ \A p \in DOMAIN Before :
              /\ Get(After[p], "_id") = Get(Before[p], "_id")
              /\ Get(Before[p], "_id") \notin AddressedIds => After[p] = Before[p]
              /\ Get(Before[p], "_id") \in AddressedIds /\ call.fields # <<>> =>
                    /\ OnlyNamedDiffer(Before[p], After[p], call.fields)
                    /\ result.exc = "none" =>
                          NamedWritten(FrameWithId(Get(Before[p], "_id")),
                                       After[p], call.fields)
              /\ Get(Before[p], "_id") \in AddressedIds /\ call.fields = <<>>
                 /\ result.exc = "none" =>
                    AllWritten(FrameWithId(Get(Before[p], "_id")), Before[p], After[p])

\* Two lairs are stored; the frame of one was renamed and given another
\* inventory, and update('inventory.gold') stored the gold alone.
C14_Witness ==
    /\ call.op = "update"
    /\ call.fields = <<"inventory.gold">>
    /\ result.exc = "none"
    /\ Len(Before) = 2
    /\ \E p \in DOMAIN Before :
          /\ Get(Before[p], "_id") \in AddressedIds
          /\ FrameWithId(Get(Before[p], "_id")).doc =
                PyDict(Map3("_id", Get(Before[p], "_id"),
                            "name", PyStr("Pit"), "inventory", Rich))
          /\ Before[p] =
                PyDict(Map3("_id", Get(Before[p], "_id"),
                            "name", Cave, "inventory", Hoard))
          /\ After[p].m["name"] = Cave
          /\ After[p].m["inventory"] =
                PyDict(Map2("gold", PyInt(2000), "skulls", PyInt(100)))

\* C15: upsert inserts the document when the frame has no _id or when no
\* stored document has its _id, and updates otherwise; after any sequence of
\* upserts exactly one stored document has the frame's _id, and a frame's
\* _id is not changed by a later upsert.
C15_Upsert ==
    call.op = "upsert" =>
        LET frame == FramesCalled[1]
            after == held[call.frames[1]]
            id == FrameId(frame)
        IN  /\ id = None \/ PositionOf(Before, id) = 0 =>
                  /\ result.exc = "none"
                  /\ After = Append(Before,
                                PyDict(Put(ToRefs(frame.doc).m, "_id", FrameId(after))))
            /\ id # None /\ PositionOf(Before, id) # 0 =>
                  /\ Len(After) = Len(Before)
                  /\ \A p \in DOMAIN Before :
                        /\ Get(Before[p], "_id") # id => After[p] = Before[p]
                        /\ Get(Before[p], "_id") = id /\ result.exc = "none" =>
                              IF call.fields = <<>>
                              THEN AllWritten(frame, Before[p], After[p])
                              ELSE NamedWritten(frame, After[p], call.fields)
            /\ FrameId(after) # None
            /\ CountId(store, "Lair", FrameId(after)) = 1
            /\ id # None => FrameId(after) = id
            /\ \A n \in DOMAIN held : n # call.frames[1] => held[n] = call.held[n]

\* A frame whose document was deleted from the store is upserted: it is
\* inserted again under the _id it had, beside another stored lair.
C15_Witness ==
    /\ call.op = "upsert"
    /\ result.exc = "none"
    /\ FrameId(FramesCalled[1]) # None
    /\ PositionOf(Before, FrameId(FramesCalled[1])) = 0
    /\ Len(Before) = 1
    /\ Len(After) = 2
    /\ FrameId(held[call.frames[1]]) = FrameId(FramesCalled[1])

----------------------------------------------------------------------------
(* Pagination (mongoframes/pagination.py): a Paginator over the Lair        *)
(* collection, built once (`held` holds it) and asked for pages while the   *)
(* caller may go on inserting and deleting documents.                       *)

MaxItems == 5
MaxPerPage == 3
MaxOrphans == 3

InvalidPage == "InvalidPage"

Max(a, b) == IF a >= b THEN a ELSE b

\* int(math.ceil(total / float(per_page))), for per_page >= 1
CeilDiv(total, per_page) == -((-total) \div per_page)

\* A bug PageCount could have: the orphans are not taken off the total.
PageCountOfAll(items_count, per_page, orphans) ==
    Max(1, CeilDiv(items_count, per_page))

\* total = self._items_count - orphans; max(1, int(math.ceil(...)))
PageCount(items_count, per_page, orphans) ==
    Max(1, CeilDiv(items_count - orphans, per_page))

\* Paginator.__init__ with sort as the only filter argument.
NewPaginator(cls, per_page, orphans, sort, db) ==
    [t |-> "paginator", cls |-> cls, per_page |-> per_page, orphans |-> orphans,
     sort |-> sort, items_count |-> Len(db[cls]),
     page_count |-> PageCount(Len(db[cls]), per_page, orphans)]

\* A bug PageNumbers could have: the range runs one page too far.
PageNumbersBeyond(paginator) == 1..(paginator.page_count + 1)

\* self._page_numbers = range(1, self._page_count + 1)
PageNumbers(paginator) == 1..paginator.page_count

\* A bug Limit could have: the last page is no longer than the others.
LimitWithoutOrphans(paginator, page_number) == paginator.per_page

\* filter_args['limit'], with the orphans added on the last page.
Limit(paginator, page_number) ==
    IF paginator.items_count - (page_number * paginator.per_page) <= paginator.orphans
    THEN paginator.per_page + paginator.orphans
    ELSE paginator.per_page

\* filter_args['skip']
Skip(paginator, page_number) == (page_number - 1) * paginator.per_page

\* The cursor's order: insertion order, or the reverse under a descending sort.
Sorted(docs, sort) == IF sort = "desc" THEN Reversed(docs) ELSE docs

\* cursor.skip(skip).limit(limit)
Window(docs, skip, limit) ==
    SubSeq(docs, skip + 1, IF skip + limit < Len(docs) THEN skip + limit ELSE Len(docs))

\* self._frame_cls.many(self._filter, sort=..., skip=..., limit=...)
ManyWindow(cls, sort, skip, limit, db) ==
    LET docs == Window(Sorted(Find(cls, None, FullProjection(cls), db).val, sort),
                       skip, limit)
    IN  [i \in DOMAIN docs |-> NewFrame(cls, docs[i])]

\* Page(offset, number, items, next, prev)
NewPage(offset, number, items, next, prev) ==
    [t |-> "page", offset |-> offset, number |-> number, items |-> items,
     next |-> next, prev |-> prev]

\* Paginator.__getitem__: [exc, page, fetches], fetches counting the queries.
GetItem(paginator, page_number, db) ==
    IF page_number \notin PageNumbers(paginator)
    THEN [exc |-> InvalidPage, page |-> None, fetches |-> 0]
    ELSE [exc |-> "none",
          page |-> NewPage(
              Skip(paginator, page_number),
              page_number,
              ManyWindow(paginator.cls, paginator.sort, Skip(paginator, page_number),
                         Limit(paginator, page_number), db),
              IF page_number + 1 \in PageNumbers(paginator)
              THEN PyInt(page_number + 1) ELSE None,
              IF page_number - 1 \in PageNumbers(paginator)
              THEN PyInt(page_number - 1) ELSE None),
          fetches |-> 1]

\* Paginator.__iter__, run to the end: [exc, pages, fetches]
Iterated(paginator, db) ==
    [exc |-> "none",
     pages |-> [k \in 1..paginator.page_count |-> GetItem(paginator, k, db).page],
     fetches |-> paginator.page_count]

\* list.index(item) with Frame.__eq__ (same class, same _id), from zero; the
\* length of the list when no item is equal.
Index(items, item) ==
    IF \E i \in DOMAIN items : FrameId(items[i]) = FrameId(item)
    THEN (CHOOSE i \in DOMAIN items :
            /\ FrameId(items[i]) = FrameId(item)
            /\ \A j \in DOMAIN items : FrameId(items[j]) = FrameId(item) => i <= j) - 1
    ELSE Len(items)

\* Page.offset(item)
Offset(page, item) == page.offset + Index(page.items, item)

Sorts == {"none", "desc"}

InitPages ==
    /\ store = EmptyStore /\ call = NoCall /\ result = NoResult
    /\ projections = DeclaredProjections
    /\ held = NoObjects
    /\ cache = EmptyMap /\ threads = NoThreads

\* Lair(name=...).insert()
InsertItem ==
    /\ Idle
    /\ FreshId(store, <<>>).id <= MaxItems * IdStep("Lair")
    /\ store' = InsertOne(store, "Lair", PyDict(Map1("name", Cave)),
                          FreshId(store, <<>>)).store
    /\ UNCHANGED <<call, result, projections, held, cache, threads>>

\* Lair.one(...).delete()
DeleteItem(i) ==
    /\ Idle
    /\ i \in DOMAIN store["Lair"]
    /\ store' = DeleteOne(store, "Lair", Get(store["Lair"][i], "_id"))
    /\ UNCHANGED <<call, result, projections, held, cache, threads>>

\* paginator = Paginator(Lair, per_page=..., orphans=..., sort=...)
Paginate(per_page, orphans, sort) ==
    /\ Idle
    /\ held' = <<NewPaginator("Lair", per_page, orphans, sort, store)>>
    /\ UNCHANGED <<store, call, result, projections, cache, threads>>

\* paginator[page_number]
GetPage(page_number) ==
    /\ Idle
    /\ held # NoObjects
    /\ call' = [op |-> "page", page_number |-> page_number]
    /\ result' = GetItem(held[1], page_number, store)
    /\ UNCHANGED <<store, projections, held, cache, threads>>

\* list(paginator)
Iterate ==
    /\ Idle
    /\ held # NoObjects
    /\ call' = [op |-> "iter"]
    /\ result' = Iterated(held[1], store)
    /\ UNCHANGED <<store, projections, held, cache, threads>>

NextPages ==
    \/ InsertItem
    \/ \E i \in 1..MaxItems : DeleteItem(i)
    \/ \E per_page \in 1..MaxPerPage : \E orphans \in 0..MaxOrphans :
          \E sort \in Sorts : Paginate(per_page, orphans, sort)
    \/ \E page_number \in 0..(MaxItems + 1) : GetPage(page_number)
    \/ Iterate
    \/ Finish

SpecPages == InitPages /\ [][NextPages]_vars

----------------------------------------------------------------------------
(* Claims about pagination, checked under SpecPages.                        *)

Paginator == held[1]

\* The store holds as many matching items as when the paginator counted them.
CountHolds == Paginator.items_count = Len(store["Lair"])

\* Lair.many(sort=...): every matching item in the query's order.
FullResult ==
    ManyWindow("Lair", Paginator.sort, 0, Len(store["Lair"]), store)

PageItems == [k \in DOMAIN result.pages |-> result.pages[k].items]

\* C18: for every item count, per_page >= 1 and orphans >= 0, with the store
\* as it was when the paginator was built, the pages 1..page_count in order
\* hold every matching item exactly once and in the query's sort order (the
\* pages concatenated are the full ordered result), and Page.offset(item) is
\* the item's index in the full result.
C18_PagesCoverResult ==
    call.op = "iter" /\ CountHolds =>
        /\ Len(result.pages) = Paginator.page_count
        /\ Flatten(PageItems) = FullResult
        /\ \A k \in DOMAIN result.pages : \A j \in DOMAIN result.pages[k].items :
              /\ Offset(result.pages[k], result.pages[k].items[j])
                    = Index(FullResult, result.pages[k].items[j])
              /\ FullResult[Offset(result.pages[k], result.pages[k].items[j]) + 1]
                    = result.pages[k].items[j]

\* Five items under a descending sort, two per page with one orphan allowed:
\* two pages, the second of three items starting at offset 2.
C18_Witness ==
    /\ call.op = "iter"
    /\ CountHolds
    /\ Paginator.items_count = 5
    /\ Paginator.per_page = 2
    /\ Paginator.orphans = 1
    /\ Paginator.sort = "desc"
    /\ Len(result.pages) = 2
    /\ Len(result.pages[2].items) = 3
    /\ result.pages[2].offset = 2
    /\ FrameId(result.pages[1].items[1]) = ObjectId(50)

\* C19: page_count is max(1, ceil((item_count - orphans) / per_page)), the
\* least number of pages, at least one, whose per_page items each leave no
\* more than `orphans` items over; every page but the last holds exactly
\* per_page items, and the last holds all the remaining ones, at most
\* per_page + orphans and, when there are several pages, more than orphans.
C19_PageSizes ==
    held # NoObjects =>
        LET n == Paginator.items_count
            p == Paginator.per_page
            o == Paginator.orphans
            c == Paginator.page_count
        IN  /\ c >= 1
            /\ c * p >= n - o
            /\ c > 1 => (c - 1) * p < n - o
            /\ call.op = "iter" /\ CountHolds =>
                  /\ \A k \in 1..(c - 1) : Len(result.pages[k].items) = p
                  /\ Len(result.pages[c].items) = n - (c - 1) * p
                  /\ Len(result.pages[c].items) <= p + o
                  /\ c > 1 => Len(result.pages[c].items) > o

\* Four items, three per page with one orphan allowed: a single page of four
\* rather than a second page of one.
C19_Witness ==
    /\ call.op = "iter"
    /\ CountHolds
    /\ Paginator.items_count = 4
    /\ Paginator.per_page = 3
    /\ Paginator.orphans = 1
    /\ Paginator.page_count = 1
    /\ Len(result.pages[1].items) = 4

\* C20: a page number outside 1..page_count raises InvalidPage and fetches
\* nothing; a valid page number k returns the page numbered k, whose prev is
\* k-1, or None exactly when k is 1, and whose next is k+1, or None exactly
\* when k is page_count.  A paginator over an empty result has exactly one
\* valid page, number 1, which is empty.
C20_PageNumbers ==
    call.op = "page" =>
        LET k == call.page_number
            c == Paginator.page_count
        IN  /\ k \notin 1..c => result.exc = InvalidPage /\ result.fetches = 0
            /\ k \in 1..c =>
                  /\ result.exc = "none"
                  /\ result.page.number = k
                  /\ result.page.prev = (IF k = 1 THEN None ELSE PyInt(k - 1))
                  /\ result.page.next = (IF k = c THEN None ELSE PyInt(k + 1))
            /\ Paginator.items_count = 0 =>
                  /\ c = 1
                  /\ k = 1 /\ CountHolds => result.page.items = <<>>

\* The page after the last of three is asked for and refused.
C20_Witness ==
    /\ call.op = "page"
    /\ Paginator.page_count = 3
    /\ call.page_number = 4
    /\ result.exc = InvalidPage
    /\ result.fetches = 0

----------------------------------------------------------------------------
(* Lists at the directive paths that are empty or hold an element that is   *)
(* no mapping, and empty maps, next to values of the usual shapes.          *)

ShapedLairs ==
    { Map2("name", PyStr("Heap"), "inventory",
           PyList(<<GoldKept(1000, 1), PyInt(5), Gold(2000)>>)),
      Map2("name", PyStr("Bare"), "inventory", PyList(<<>>)),
      Map2("name", PyStr("Den"), "inventory", GoldKept(2000, 1)),
      Map2("name", PyStr("Hoard"), "inventory",
           PyList(<<GoldKept(1000, 2), Gold(2000)>>)) }

ShapedDragons ==
    { Map2("name", PyStr("Norbert"), "lair", PyList(<<>>)),
      Map2("name", PyStr("Errol"), "lair", PyDict(EmptyMap)),
      Map2("name", PyStr("Burt"), "lair", ObjectId(10)),
      Map2("name", PyStr("Albert"), "lair", PyList(<<ObjectId(20), ObjectId(10)>>)) }

ShapeCandidates(cls) == IF cls = "Lair" THEN ShapedLairs ELSE ShapedDragons

NextShapes ==
    \/ \E cls \in Collections : \E fields \in ShapeCandidates(cls) : Insert(cls, fields)
    \/ \E cls \in Collections : \E projection \in Projections(cls) :
          \E rev \in Orders(projection) : Many(cls, projection, rev)
    \/ \E cls \in Collections : \E projection \in Projections(cls) :
          \E filter \in Filters(cls) : \E rev \in Orders(projection) :
             One(cls, filter, projection, rev)
    \/ Finish

SpecShapes == Init /\ [][NextShapes]_vars

----------------------------------------------------------------------------
(* Claims about the shapes the resolvers meet, checked under SpecShapes     *)
(* (C21, C23) and under Spec (C22, C29).                                    *)

\* The call has an embedding directive on the `inventory` of the lairs it
\* queries.
EmbedsInventory == Called /\ call.cls = "Lair" /\ "inventory" \in TopSubs

HasNonMapping(v) == IsList(v) /\ \E i \in DOMAIN v.items : ~IsDict(v.items[i])

\* The sub-frames of `got` are those of the mappings of `raw`, in order.
WrapsMappingsOf(got, raw) ==
    LET ds == SelectSeq(raw.items, IsDict)
    IN  /\ IsList(got)
        /\ Len(got.items) = Len(ds)
        /\ \A j \in DOMAIN ds :
              /\ got.items[j].t = "sub"
              /\ Get(got.items[j], "gold") = Get(ds[j], "gold")

\* C21, as claimed: a call with an embedding directive over lists, one of
\* them with an element that is no mapping, does not raise, with or without
\* directives in the nested projection: each list resolves to the sub-frames
\* of its mappings in their order.
C21_AsClaimed ==
    (/\ EmbedsInventory
     /\ \A i \in DOMAIN Sources : IsList(RawAt("inventory", i))
     /\ \E i \in DOMAIN Sources : HasNonMapping(RawAt("inventory", i)))
    => /\ result.exc = "none"
       /\ \A i \in DOMAIN result.docs :
             WrapsMappingsOf(GotAt("inventory", i), RawAt("inventory", i))

IsSubFrames(e) == e.ev = "sub_frames"
SubPasses == SelectSeq(result.log, IsSubFrames)

\* The mappings one stored value has wrapped: itself, its elements, or with
\* the map variant its entries and the elements of its list-valued entries.
MappingsOf(v) == IF IsList(v) THEN SelectSeq(v.items, IsDict) ELSE <<v>>
WrappedMappings(v, expect_map) ==
    IF v = None THEN <<>>
    ELSE IF IsDict(v) /\ expect_map
    THEN LET vs == ValuesOf(v.m, FALSE)
         IN  Flatten([j \in DOMAIN vs |-> MappingsOf(vs[j])])
    ELSE MappingsOf(v)

\* C22, as claimed: over stored values of the shapes an embedding directive
\* is meant for, the flat list the nested projection is applied to holds
\* exactly the mappings that are wrapped, one per sub-frame and document
\* after document, entries of the map variant that are lists included.
C22_AsClaimed ==
    (/\ EmbedsInventory /\ Sources # <<>>
     /\ \A l \in Range(store["Lair"]) :
           Embeddable(Get(l, "inventory"), ExpectMap(InventoryDirective)))
    => /\ Len(SubPasses) = 1
       /\ SubPasses[1].raw_subs =
             Flatten([i \in DOMAIN Sources |->
                         WrappedMappings(RawAt("inventory", i),
                                         ExpectMap(InventoryDirective))])

EmptyList == PyList(<<>>)
EmptyDict == PyDict(EmptyMap)

\* C23: when a call returns, a document that held an empty list or an empty
\* map at a reference path of the query, or an empty list at an embedding
\* path, holds the same empty collection there afterwards: the key is still
\* present and its value is neither None nor a non-empty collection.
C23_EmptyStaysEmpty ==
    Returned =>
        \A i \in DOMAIN result.docs :
            /\ \A p \in TopReferences :
                  RawAt(p, i) \in {EmptyList, EmptyDict} =>
                      /\ p \in DOMAIN result.docs[i].doc.m
                      /\ GotAt(p, i) = RawAt(p, i)
            /\ \A p \in TopSubs :
                  RawAt(p, i) = EmptyList =>
                      /\ p \in DOMAIN result.docs[i].doc.m
                      /\ GotAt(p, i) = EmptyList

\* One call returned dragons with an empty list and an empty map of lairs
\* next to one whose lair was fetched for; another returned a lair with an
\* empty inventory next to one whose inventory was wrapped.
C23_Witness ==
    /\ Returned
    /\ \/ /\ "lair" \in TopReferences
          /\ Len(result.docs) = 3
          /\ GotAt("lair", 1) = EmptyList
          /\ GotAt("lair", 2) = EmptyDict
          /\ RawAt("lair", 3) = ObjectId(10)
          /\ Len(Fetches) = 2
       \/ /\ "inventory" \in TopSubs
          /\ Nests(Effective)
          /\ Len(result.docs) = 2
          /\ GotAt("inventory", 1) = EmptyList
          /\ GotAt("inventory", 2).t = "sub"

\* The documents the main fetch of the call returned.
FoundDocument(i) ==
    ProjectDocument(Sources[i], FlattenProjection(call.cls, Effective).flat)

DirectivePaths == {PathToKeys(p) : p \in TopReferences \cup TopSubs}

\* Whether a and b are equal but for what they hold at the key sequences.
RECURSIVE SameExcept(_, _, _)
SameExcept(a, b, paths) ==
    IF <<>> \in paths THEN TRUE
    ELSE IF paths = {} \/ ~IsDict(a) THEN a = b
    ELSE /\ IsDict(b)
         /\ DOMAIN b.m = DOMAIN a.m
         /\ \A k \in DOMAIN a.m :
               SameExcept(a.m[k], b.m[k],
                          {Tail(p) : p \in {q \in paths : Head(q) = k}})

\* C29: after a call that returns, the documents are those the main fetch
\* returned, as many and in that order, and each differs from the fetched
\* one only in what it holds at the directive paths: the other keys of the
\* document and of the mappings on the way to a path are the same with the
\* same values, and a document that holds nothing (no key, or None) at every
\* directive path is the fetched document unchanged.
C29_OnlyThePath ==
    Returned =>
        /\ Len(result.docs) = Len(Sources)
        /\ \A i \in DOMAIN result.docs :
              /\ SameExcept(FoundDocument(i), result.docs[i].doc, DirectivePaths)
              /\ (\A p \in TopReferences \cup TopSubs :
                      PathToValue(p, FoundDocument(i)).val = None)
                 => result.docs[i].doc = FoundDocument(i)

\* A lair with the keeper of its inventory resolved and its other keys as
\* stored, after a lair with no inventory that was returned unchanged.
C29_Witness ==
    /\ Returned /\ call.cls = "Lair"
    /\ TopReferences = {"inventory.keeper"} /\ TopSubs = {}
    /\ Len(result.docs) = 2
    /\ Get(FoundDocument(1), "inventory") = None
    /\ result.docs[1].doc = FoundDocument(1)
    /\ GotAt("inventory.keeper", 2).t = "frame"
    /\ GotAt("inventory.gold", 2) = RawAt("inventory.gold", 2)
    /\ GotAt("name", 2) = RawAt("name", 2)
    /\ result.docs[2].doc # FoundDocument(2)

----------------------------------------------------------------------------
(* Reference tables of several entries: `many` over documents with two      *)
(* reference paths, the entries taken in either iteration order.            *)

\* Lairs whose inventory names a keeper and an owner.
Owned(n, keeper, owner) ==
    PyDict(Map3("gold", PyInt(n), "keeper", ObjectId(keeper), "owner", ObjectId(owner)))

KeptLairs ==
    { Map2("name", PyStr("Keep"), "inventory", Owned(2000, 1, 2)),
      Map2("name", PyStr("Den"), "inventory", Owned(1000, 2, 2)),
      Map2("name", PyStr("Cave"), "inventory", GoldKept(1000, 1)) }

LairedDragons ==
    { Map2("name", PyStr("Burt"), "lair", ObjectId(10)),
      Map2("name", PyStr("Fred"), "lair", ObjectId(20)),
      Map2("name", PyStr("Albert"), "lair",
           PyList(<<ObjectId(20), ObjectId(10), ObjectId(20)>>)),
      Map1("name", PyStr("Puff")) }

\* {'$ref': Lair, '$slice': 2}: the first two lairs of a dragon's list.
RefLairSliced == PyDict(Map2("$ref", PyClass("Lair"), "$slice", SliceArg))

OrderCandidates(cls) == IF cls = "Lair" THEN KeptLairs ELSE LairedDragons

\* Two reference entries on paths apart from each other; two the second of
\* which leads through the value of the first; a reference entry next to an
\* embedding entry; a reference entry with an embedding nested in it; a
\* reference entry with a mongo operator beside the $ref.
ReferenceTables(cls) ==
    IF cls = "Lair"
    THEN { PyDict(Map2("inventory.keeper", RefDragon, "inventory.owner", RefDragon)),
           PyDict(Map2("inventory.keeper", RefDragon, "inventory", SubInventory)) }
    ELSE { PyDict(Map2("lair", RefLair, "lair.inventory.keeper", RefDragon)),
           PyDict(Map1("lair", RefLairWith(SubKept))),
           PyDict(Map1("lair", RefLairSliced)) }

NextOrder ==
    \/ \E cls \in Collections : \E fields \in OrderCandidates(cls) : Insert(cls, fields)
    \/ \E cls \in Collections : \E projection \in ReferenceTables(cls) :
          \E rev \in Orders(projection) : Many(cls, projection, rev)
    \/ \E cls \in Collections : \E projection \in ReferenceTables(cls) :
          \E filter \in Filters(cls) : \E rev \in Orders(projection) :
             One(cls, filter, projection, rev)
    \/ Finish

SpecOrder == Init /\ [][NextOrder]_vars

\* The outcome of the call with the entries of its tables taken in the other
\* order.
OtherOrder == ManyCall(call.cls, call.filter, call.projection, store, ~call.rev, <<>>)
SameOutcome(r, o) == r.exc = o.exc /\ r.docs = o.docs

\* Whether the keys of p are the first keys of q.
LeadsThrough(p, q) ==
    /\ Len(PathToKeys(p)) < Len(PathToKeys(q))
    /\ SubSeq(PathToKeys(q), 1, Len(PathToKeys(p))) = PathToKeys(p)
Apart(paths) == \A p, q \in paths : ~LeadsThrough(p, q)

Step(e) ==
    IF e.at = <<>>
    THEN (IF e.ev = "flatten" THEN 1 ELSE IF e.ev = "find" THEN 2 ELSE 5)
    ELSE IF e.at[1] \in TopSubs THEN 4 ELSE 3

StepsOf(k) == {i \in DOMAIN result.log : Step(result.log[i]) = k}

\* C25: the events of a one/many call are in the order of its steps: one
\* compilation, then one main fetch, then everything done for the reference
\* entries, then everything done for the embedding entries, then the frames;
\* a call that returns documents has gone through every entry of both
\* tables; and `one` that finds no document returns nothing after the main
\* fetch, with no lookup and no embedding step.
C25_StrictSequence ==
    Called =>
        /\ Len(result.log) >= 2
        /\ StepsOf(1) = {1} /\ StepsOf(2) = {2}
        /\ \A i, j \in DOMAIN result.log :
              i < j => Step(result.log[i]) <= Step(result.log[j])
        /\ (Returned /\ Sources # <<>>) =>
              /\ StepsOf(5) = {Len(result.log)}
              /\ \A p \in TopReferences : \E i \in StepsOf(3) :
                    result.log[i].ev = "find" /\ result.log[i].at = <<p>>
              /\ \A p \in TopSubs : \E i \in StepsOf(4) :
                    result.log[i].ev = "sub_frames" /\ result.log[i].at = <<p>>
        /\ (call.op = "one" /\ Sources = <<>> /\ result.log[2].ev = "find") =>
              /\ result.exc = "none" /\ result.docs = <<>>
              /\ Len(result.log) = 2

\* A call went through all five steps: it resolved the keeper of a lair's
\* inventory and then wrapped the inventory.
C25_Witness ==
    /\ Returned
    /\ TopReferences = {"inventory.keeper"} /\ TopSubs = {"inventory"}
    /\ \A k \in 1..5 : StepsOf(k) # {}
    /\ Len(result.docs) = 1
    /\ GotAt("inventory", 1).t = "sub"
    /\ GotAt("inventory.keeper", 1).t = "frame"

\* The fetches made on target classes, for the reference directives.
IsTargetFetch(e) == e.ev = "find" /\ e.at # <<>>
TargetFetches == SelectSeq(result.log, IsTargetFetch)

\* C30, as claimed: no fetch made on a target class for a reference
\* directive has a key that starts with `$` in its projection, whatever
\* operators stand beside the $ref in the directive, and the call is not
\* refused by the store for such a key.
C30_AsClaimed ==
    Called =>
        /\ \A i \in DOMAIN TargetFetches :
              \A k \in DOMAIN TargetFetches[i].projection : ~StartsWithDollar(k)
        /\ result.exc # OperationFailure

----------------------------------------------------------------------------
(* The path cache under threads: _BaseFrame._path_to_keys_cache is one dict *)
(* of the process; a thread may be switched out between the cache.get and   *)
(* the assignment that follows a miss.                                      *)

MaxThreads == 2

Threads == 1..MaxThreads

\* The paths asked for, one of them with an empty segment.
CachePaths == {"name", "inventory.gold", "a..b"}

\* The methods that call _path_to_keys.
CacheCallers == {"_path_to_value", "_remove_keys", "_dereference"}

IdleThread == [pc |-> "idle"]

\* `keys` before the assignment, and when cache.get returned None.
NoKeys == <<>>

InitCache ==
    /\ store = EmptyStore /\ call = NoCall /\ result = NoResult
    /\ projections = DeclaredProjections
    /\ held = NoObjects
    /\ cache = EmptyMap
    /\ threads = [t \in Threads |-> IdleThread]

\* keys = cls._path_to_keys(path), entered by one of the callers.
CallPathToKeys(t, caller, path) ==
    /\ threads[t].pc = "idle"
    /\ threads' = [threads EXCEPT ![t] =
                      [pc |-> "get", caller |-> caller, path |-> path, keys |-> NoKeys]]
    /\ UNCHANGED <<store, call, result, projections, held, cache>>

\* keys = _BaseFrame._path_to_keys_cache.get(path)
CacheGet(t) ==
    /\ threads[t].pc = "get"
    /\ LET path == threads[t].path
           keys == IF path \in DOMAIN cache THEN cache[path] ELSE NoKeys
       IN  threads' = [threads EXCEPT ![t].keys = keys,
                                      ![t].pc = IF keys = NoKeys THEN "split" ELSE "return"]
    /\ UNCHANGED <<store, call, result, projections, held, cache>>

\* A bug CacheSetItem could have: the cache keeps one entry, the newest.
CacheSetItemEvicting(c, path, keys) == [p \in {path} |-> keys]

\* _BaseFrame._path_to_keys_cache[path] = keys
CacheSetItem(c, path, keys) == Put(c, path, keys)

\* if keys is None: keys = _BaseFrame._path_to_keys_cache[path] =
\* path.split('.')
CacheSet(t) ==
    /\ threads[t].pc = "split"
    /\ LET keys == PathToKeys(threads[t].path)
       IN  /\ threads' = [threads EXCEPT ![t].keys = keys, ![t].pc = "return"]
           /\ cache' = CacheSetItem(cache, threads[t].path, keys)
    /\ UNCHANGED <<store, call, result, projections, held>>

\* return keys
ReturnKeys(t) ==
    /\ threads[t].pc = "return"
    /\ threads' = [threads EXCEPT ![t] = IdleThread]
    /\ UNCHANGED <<store, call, result, projections, held, cache>>

NextCache ==
    \/ \E t \in Threads : \E caller \in CacheCallers : \E path \in CachePaths :
          CallPathToKeys(t, caller, path)
    \/ \E t \in Threads : CacheGet(t)
    \/ \E t \in Threads : CacheSet(t)
    \/ \E t \in Threads : ReturnKeys(t)

SpecCache == InitCache /\ [][NextCache]_vars

----------------------------------------------------------------------------
(* Claims about the path cache, checked under SpecCache.                    *)

\* What path.split('.') has to return: keys without a dot that give the path
\* back when joined with dots.
RECURSIVE Joined(_)
Joined(keys) ==
    IF Len(keys) = 1 THEN keys[1] ELSE keys[1] \o "." \o Joined(Tail(keys))

HasDot(key) == \E i \in 1..Len(key) : SubSeq(key, i, i) = "."

IsSplitOf(keys, path) ==
    /\ keys # <<>>
    /\ \A i \in DOMAIN keys : ~HasDot(keys[i])
    /\ Joined(keys) = path

CacheCorrect == \A p \in DOMAIN cache : IsSplitOf(cache[p], p)

CallersServed ==
    \A t \in Threads :
        threads[t].pc = "return" => IsSplitOf(threads[t].keys, threads[t].path)

CacheKept == \A p \in DOMAIN cache : p \in DOMAIN cache' /\ cache'[p] = cache[p]

\* C26: under every interleaving of the threads, each entry of the cache is
\* its path split on dots (empty segments kept), every caller is returned
\* the split of its path whether it hit or missed, and no step removes an
\* entry or changes its value.
C26_CacheAppendOnly == [](CacheCorrect /\ CallersServed) /\ [][CacheKept]_vars

\* Two threads missed the same path, one with an empty segment: the first
\* has written its entry and is returning, the second is about to write the
\* entry again.
C26_Witness ==
    /\ threads[1].pc = "return" /\ threads[1].path = "a..b"
    /\ threads[1].keys = <<"a", "", "b">>
    /\ threads[2].pc = "split" /\ threads[2].path = "a..b"
    /\ "a..b" \in DOMAIN cache

----------------------------------------------------------------------------
(* Default projections that reference each other: dragons dereference their *)
(* lair by default, and lairs the keeper of their inventory.                *)

MutualProjections ==
    [DeclaredProjections EXCEPT
        !.default["Lair"] = PyDict(Map1("inventory.keeper", RefDragon))]

\* The projection arguments: none (the class's default), a reference with no
\* nested projection, and references with directives nested two deep.
DefaultedProjections(cls) ==
    IF cls = "Lair"
    THEN { NotPassed, PyDict(Map1("inventory", SubKept)) }
    ELSE { NotPassed, PyDict(Map1("lair", RefLair)),
           PyDict(Map1("lair", RefLairWith(SubKept))) }

InitDefaults ==
    /\ store = EmptyStore /\ call = NoCall /\ result = NoResult
    /\ projections = MutualProjections
    /\ held = NoObjects
    /\ cache = EmptyMap /\ threads = NoThreads

NextDefaults ==
    \/ \E cls \in Collections : \E fields \in OrderCandidates(cls) : Insert(cls, fields)
    \/ \E cls \in Collections : \E projection \in DefaultedProjections(cls) :
          Many(cls, projection, FALSE)
    \/ \E cls \in Collections : \E projection \in DefaultedProjections(cls) :
          \E filter \in Filters(cls) : One(cls, filter, projection, FALSE)
    \/ Finish

SpecDefaults == InitDefaults /\ [][NextDefaults]_vars

----------------------------------------------------------------------------
(* Claims about the depth of resolution, checked under SpecDefaults.        *)

\* The directives nested in one another in a projection, at most.
RECURSIVE NestingDepth(_)
NestingDepth(projection) ==
    IF ~IsDict(projection) THEN 0
    ELSE LET nested == {k \in DOMAIN projection.m :
                           ~StartsWithDollar(k) /\ IsTagged(projection.m[k])}
             depths == {1 + NestingDepth(projection.m[k]) : k \in nested} \cup {0}
         IN  CHOOSE d \in depths : \A e \in depths : e <= d

\* What a projection holds at the end of a trail of keys.
RECURSIVE DirectiveAt(_, _)
DirectiveAt(projection, at) ==
    IF at = <<>> THEN projection
    ELSE IF IsDict(projection) /\ Head(at) \in DOMAIN projection.m
    THEN DirectiveAt(projection.m[Head(at)], Tail(at))
    ELSE None

\* The event is for a directive of the projection in use: a compilation or a
\* fetch for a reference to the event's class, an embedding pass for an
\* embedding of it.
OfProjectionInUse(e) ==
    \/ e.at = <<>> /\ e.cls = call.cls
    \/ /\ e.at # <<>>
       /\ LET d == DirectiveAt(Effective, e.at)
          IN  IF e.ev = "sub_frames"
              THEN IsDict(d) /\ DOMAIN d.m \cap {"$sub", "$sub."} # {} /\ SubClass(d) = e.cls
              ELSE IsDict(d) /\ "$ref" \in DOMAIN d.m /\ d.m["$ref"].name = e.cls

\* C27: every one/many call ends, with a result or an exception, after at
\* most one fetch for the query and one for each reference directive of the
\* projection in use (the caller's, or the default one of the class
\* queried); everything it does is for a directive of that projection, no
\* deeper than the directives are nested, so the default projection of a
\* class reached through a reference is never expanded, even when the
\* default projections of the classes reference each other.
C27_DepthOfProjection ==
    Called =>
        /\ result # NoResult
        /\ Len(Fetches) <= 1 + ReferenceDirectives(Effective)
        /\ \A i \in DOMAIN result.log :
              /\ Len(result.log[i].at) <= NestingDepth(Effective)
              /\ OfProjectionInUse(result.log[i])

\* Dragons were fetched with their default projection: the lair is a frame,
\* and the keeper of its inventory, which the default projection of Lair
\* dereferences, is the stored identifier of a stored dragon.
C27_Witness ==
    /\ call.op = "many" /\ call.cls = "ComplexDragon" /\ call.projection = NotPassed
    /\ result.exc = "none" /\ Len(result.docs) = 2
    /\ GotAt("lair", 1).t = "frame"
    /\ GotAt("lair", 1).cls = "Lair"
    /\ PathToValue("inventory.keeper", GotAt("lair", 1)).val = ObjectId(2)
    /\ Stored("ComplexDragon", ObjectId(2))
    /\ Len(Fetches) = 2

----------------------------------------------------------------------------
(* upsert next to another writer: the count and the insert or update that   *)
(* follows are two requests to the store, and another client's delete_one   *)
(* or insert_one may be served between them.                                *)

\* Each upserting thread holds one frame, with an _id:
\* Lair(_id=ObjectId(10), name='Cave'), Lair(_id=ObjectId(20), name='Nest')
RacedFrames ==
    <<NewFrame("Lair", PyDict(Map2("_id", ObjectId(10), "name", Cave))),
      NewFrame("Lair", PyDict(Map2("_id", ObjectId(20), "name", PyStr("Nest"))))>>

Upserters == DOMAIN RacedFrames

\* The document the other writer inserts under an _id.
OthersDocument(id) == PyDict(Map2("_id", id, "name", PyStr("Other")))

\* A thread outside upsert; `seen` is what count returned, `found` and
\* `after` the number of documents with the frame's _id just before and just
\* after the write, `exc` what the write raised.
NotUpserting ==
    [pc |-> "idle", seen |-> 0, found |-> 0, after |-> 0, exc |-> "none"]

InitRace ==
    /\ store = EmptyStore /\ call = NoCall /\ result = NoResult
    /\ projections = DeclaredProjections
    /\ held = RacedFrames
    /\ cache = EmptyMap
    /\ threads = [t \in Upserters |-> NotUpserting]

\* held[t].upsert(): if not self._id: return self.insert()
UpsertEnter(t) ==
    /\ threads[t].pc = "idle"
    /\ threads' = [threads EXCEPT ![t].pc =
                      IF Falsy(FrameId(held[t])) THEN "insert" ELSE "count"]
    /\ UNCHANGED <<store, call, result, projections, held, cache>>

\* if self.count({'_id': self._id}) == 0: ... else: ...
UpsertCount(t) ==
    /\ threads[t].pc = "count"
    /\ LET n == CountId(store, held[t].cls, FrameId(held[t]))
       IN  threads' = [threads EXCEPT ![t].seen = n,
                                      ![t].pc = IF n = 0 THEN "insert" ELSE "update"]
    /\ UNCHANGED <<store, call, result, projections, held, cache>>

\* self.insert()
UpsertInsert(t) ==
    /\ threads[t].pc = "insert"
    /\ LET r == InsertFrame(held[t], store, FreshId(store, held))
       IN  /\ store' = r.store
           /\ held' = [held EXCEPT ![t] = r.frame]
           /\ threads' = [threads EXCEPT
                 ![t].pc = "inserted", ![t].exc = r.exc,
                 ![t].found = CountId(store, held[t].cls, FrameId(held[t])),
                 ![t].after = CountId(r.store, held[t].cls, FrameId(held[t]))]
    /\ UNCHANGED <<call, result, projections, cache>>

\* self.update(*fields), with no fields
UpsertUpdate(t) ==
    /\ threads[t].pc = "update"
    /\ LET r == UpdateFrame(held[t], <<>>, store)
       IN  /\ store' = r.store
           /\ threads' = [threads EXCEPT
                 ![t].pc = "updated", ![t].exc = r.exc,
                 ![t].found = CountId(store, held[t].cls, FrameId(held[t])),
                 ![t].after = CountId(r.store, held[t].cls, FrameId(held[t]))]
    /\ UNCHANGED <<call, result, projections, held, cache>>

\* upsert has returned or raised; the thread goes on.
UpsertLeave(t) ==
    /\ threads[t].pc \in {"inserted", "updated"}
    /\ threads' = [threads EXCEPT ![t] = NotUpserting]
    /\ UNCHANGED <<store, call, result, projections, held, cache>>

\* Another client: collection.delete_one({'_id': id})
OtherDelete(id) ==
    /\ CountId(store, "Lair", id) # 0
    /\ store' = DeleteOne(store, "Lair", id)
    /\ UNCHANGED <<call, result, projections, held, cache, threads>>

\* Another client: collection.insert_one({'_id': id, 'name': 'Other'})
OtherInsert(id) ==
    /\ CountId(store, "Lair", id) = 0
    /\ store' = InsertOne(store, "Lair", OthersDocument(id), id).store
    /\ UNCHANGED <<call, result, projections, held, cache, threads>>

RacedIds == {FrameId(RacedFrames[t]) : t \in Upserters}

NextRace ==
    \/ \E t \in Upserters : UpsertEnter(t)
    \/ \E t \in Upserters : UpsertCount(t)
    \/ \E t \in Upserters : UpsertInsert(t)
    \/ \E t \in Upserters : UpsertUpdate(t)
    \/ \E t \in Upserters : UpsertLeave(t)
    \/ \E id \in RacedIds : OtherDelete(id)
    \/ \E id \in RacedIds : OtherInsert(id)

SpecRace == InitRace /\ [][NextRace]_vars

----------------------------------------------------------------------------
(* Claims about upsert under interleaving, checked under SpecRace.          *)

Wrote(t) == threads[t].pc \in {"inserted", "updated"}

\* C28: the branch upsert takes is decided by what count returned, whatever
\* the store holds when the write is served.  An update served after another
\* writer deleted the document matches nothing: upsert returns and no
\* document has the frame's _id.  An insert served after another writer
\* inserted the _id is refused with a duplicate key error.  Only when the
\* store still is as counted does the write leave exactly one document.
C28_UpsertNotAtomic ==
    \A t \in Upserters :
        Wrote(t) =>
            /\ threads[t].pc = "inserted" <=> threads[t].seen = 0
            /\ threads[t].pc = "updated" /\ threads[t].found = 0 =>
                  threads[t].exc = "none" /\ threads[t].after = 0
            /\ threads[t].pc = "inserted" /\ threads[t].found # 0 =>
                  threads[t].exc = DuplicateKeyError /\ threads[t].after = threads[t].found
            /\ threads[t].found = threads[t].seen =>
                  threads[t].exc = "none" /\ threads[t].after = 1

\* Both interleavings, side by side: the first thread's update came after a
\* delete, it returned and no document has its _id; the second thread's
\* insert came after another writer's insert and was refused.
C28_Witness ==
    /\ threads[1].pc = "updated" /\ threads[1].seen = 1 /\ threads[1].found = 0
    /\ threads[1].exc = "none"
    /\ CountId(store, "Lair", FrameId(held[1])) = 0
    /\ threads[2].pc = "inserted" /\ threads[2].seen = 0 /\ threads[2].found = 1
    /\ threads[2].exc = DuplicateKeyError
    /\ StoredDocument("Lair", FrameId(held[2])) = OthersDocument(FrameId(held[2]))

====
